---- MODULE Spec2Model ----
(***************************************************************************)
(* Dual-credential authentication core of the Mfa-System repository:       *)
(* e-mail one-time codes and WebAuthn passkeys on top of a document store  *)
(* (identity store) and a token issuer, with two session cookies.          *)
(*                                                                         *)
(* In Spec every server action is one atomic step.  The identity store,    *)
(* the token issuer and the WebAuthn verifier are external services; each  *)
(* call to one of them may fail, and the failure is an input of the        *)
(* action.  SpecOverlap and SpecRace split createAccount and the WebAuthn  *)
(* actions at an await, so that requests overlap; SpecCeremony runs the    *)
(* two ceremonies alone with one more challenge; SpecBrowser runs the      *)
(* handlers of the sign-in forms and of the verification modal;            *)
(* SpecForm follows the form of components/AuthForm through the awaits of  *)
(* its passkey login and enrollment; SpecAccounts runs the sign-up and    *)
(* the WebAuthn actions for two e-mail addresses; SpecEncoding takes byte  *)
(* sequences through the two base64url encodings; SpecScanner runs the    *)
(* two scanner components.                                                 *)
(* The cookie store of the request is taken to work: its calls do not     *)
(* fail.                                                                   *)
(* Strings are modelled as follows: account ids are the positive integers   *)
(* the issuer hands out to its users, session ids and secrets the positive *)
(* integers it hands out to its sessions; challenges are positive integers *)
(* handed out by the options generators; credential ids                    *)
(* and public keys are sequences of base64url characters.  The display     *)
(* fields fullName and avatar take no part in any decision and are left    *)
(* out of the account record.                                              *)
(***************************************************************************)
EXTENDS Integers, Sequences, FiniteSets, TLC

\* ---------------------------------------------------------------------------
\* Bounds of the model
\* ---------------------------------------------------------------------------
MaxChallenge == 2      \* challenges the two options generators hand out
MaxCounter == 1        \* largest signature counter an authenticator reports
MaxSessions == 1       \* backing-service sessions created in one behaviour
MaxCeremonyChallenge == 3  \* challenges handed out when only the ceremonies run

Emails == {"a@x.com"}               \* e-mail addresses that sign up
Codes == {"111111"}                 \* one-time codes the issuer mails
Guesses == Codes \cup {"000000"}    \* codes a caller may submit
Authenticators == {1, 2}            \* platform authenticators (devices)

\* ---------------------------------------------------------------------------
\* Values of absent fields
\* ---------------------------------------------------------------------------
NullId == 0            \* accountId: null
NoChallenge == 0       \* currentChallenge / currentAuthChallenge null or unset
NoCounter == -1        \* counter field not present in the document
NoStr == << >>         \* empty or absent string field
NoValue == 0           \* value of an absent cookie

\* ---------------------------------------------------------------------------
\* Credential encoding: Buffer.from(bytes).toString("base64url") and
\* Buffer.from(str, "base64url")
\* ---------------------------------------------------------------------------
Base64UrlAlphabet ==
    << "A","B","C","D","E","F","G","H","I","J","K","L","M","N","O","P",
       "Q","R","S","T","U","V","W","X","Y","Z","a","b","c","d","e","f",
       "g","h","i","j","k","l","m","n","o","p","q","r","s","t","u","v",
       "w","x","y","z","0","1","2","3","4","5","6","7","8","9","-","_" >>

Sextet(n) == Base64UrlAlphabet[n + 1]

SextetOf(ch) == (CHOOSE i \in 1..64 : Base64UrlAlphabet[i] = ch) - 1

RECURSIVE EncodeBase64Url(_)
EncodeBase64Url(bytes) ==
    IF Len(bytes) = 0 THEN << >>
    ELSE IF Len(bytes) = 1 THEN
        LET n == bytes[1] * 16
        IN  << Sextet(n \div 64), Sextet(n % 64) >>
    ELSE IF Len(bytes) = 2 THEN
        LET n == (bytes[1] * 256 + bytes[2]) * 4
        IN  << Sextet(n \div 4096), Sextet((n \div 64) % 64), Sextet(n % 64) >>
    ELSE
        LET n == bytes[1] * 65536 + bytes[2] * 256 + bytes[3]
        IN  << Sextet(n \div 262144), Sextet((n \div 4096) % 64),
               Sextet((n \div 64) % 64), Sextet(n % 64) >>
            \o EncodeBase64Url(SubSeq(bytes, 4, Len(bytes)))

RECURSIVE DecodeBase64Url(_)
DecodeBase64Url(str) ==
    IF Len(str) < 2 THEN << >>
    ELSE IF Len(str) = 2 THEN
        LET n == SextetOf(str[1]) * 64 + SextetOf(str[2])
        IN  << n \div 16 >>
    ELSE IF Len(str) = 3 THEN
        LET n == SextetOf(str[1]) * 4096 + SextetOf(str[2]) * 64 + SextetOf(str[3])
        IN  << n \div 1024, (n \div 4) % 256 >>
    ELSE
        LET n == SextetOf(str[1]) * 262144 + SextetOf(str[2]) * 4096
                 + SextetOf(str[3]) * 64 + SextetOf(str[4])
        IN  << n \div 65536, (n \div 256) % 256, n % 256 >>
            \o DecodeBase64Url(SubSeq(str, 5, Len(str)))

\* toBase64Url of the registration action: empty for a missing input, the
\* input itself for a string, the base64url text for bytes.
toBase64Url(input) ==
    IF input.kind = "undefined" THEN NoStr
    ELSE IF input.kind = "string" THEN input.val
    ELSE EncodeBase64Url(input.val)

\* fromBase64Url / Buffer.from(str, "base64url") of the login action
fromBase64Url(str) == DecodeBase64Url(str)

\* What an authenticator holds: the credential id (already base64url text in
\* the verifier's registration info) and the public key bytes.
CredentialIdOf(a) == EncodeBase64Url(<< a >>)
PublicKeyOf(a) == << 165, a >>

\* ---------------------------------------------------------------------------
\* Cookies
\* ---------------------------------------------------------------------------
PrimaryCookie == "appwrite-session"
SecondaryCookie == "app-session"
CookieNames == {PrimaryCookie, SecondaryCookie}

NoCookie ==
    [value |-> NoValue, path |-> "", httpOnly |-> FALSE, sameSite |-> "", secure |-> FALSE]

SessionCookie(v) ==
    [value |-> v, path |-> "/", httpOnly |-> TRUE, sameSite |-> "strict", secure |-> TRUE]

\* ---------------------------------------------------------------------------
\* State
\* ---------------------------------------------------------------------------
VARIABLES
    docs,           \* identity store: the sequence of account documents
    users,          \* token issuer: e-mail -> user id (NullId: no user yet)
    tokens,         \* token issuer: user id -> outstanding one-time codes
    sessions,       \* token issuer: the live sessions [id, secret, userId]
    nextSession,    \* token issuer: number of sessions created so far
    nextChallenge,  \* number of challenges the generators handed out
    jar,            \* cookie store of the browser: cookie name -> cookie
    last,           \* the last call: operation, arguments, result, effects
    loginVerified,  \* history: accounts for which a login verified
    okReg,          \* history: account id -> attestation of the last
                    \*   successful registration, until new options are asked
    signUps,        \* history: e-mail -> accountId returned by the first
                    \*   successful createAccount
    pending,        \* createAccount calls in flight: caller -> what the call
                    \*   has read so far (overlapping calls only)
    issued,         \* history: ceremony kind -> accounts for which options
                    \*   were issued and no verification of the kind has
                    \*   succeeded since
    calls,          \* WebAuthn calls in flight: caller -> what the call has
                    \*   read so far (overlapping calls only)
    consumed,       \* history: the challenges for which a verification has
                    \*   returned success (the generators never repeat one)
    ui,             \* the browser: state of the two sign-in forms and of the
                    \*   verification modal, and the last event handled
    codec,          \* a credential encoding: the bytes, their text and the
                    \*   bytes decoded from the text
    scanner         \* the scanner components: component -> its state, its
                    \*   scans in flight and its reset timers

vars == << docs, users, tokens, sessions, nextSession, nextChallenge, jar, last,
           loginVerified, okReg, signUps, pending, issued, calls, consumed, ui,
           codec, scanner >>

\* Account ids a caller may pass: those the issuer can hand out; such an id
\* names no account until the sign-up has created the document
Ids == 1..Cardinality(Emails)
AccountIdInputs == DOMAIN tokens

\* The e-mail addresses of the behaviour: those the issuer may come to know
Addresses == DOMAIN users

\* A ceremony response as the browser sends it: the challenge it answers,
\* the authenticator that produced it, the signature counter it reports and
\* whether it is well formed ("valid"), tampered with ("invalid") or makes the
\* verifier report success without the info block ("noinfo").
NoResp == [challenge |-> NoChallenge, authn |-> 0, counter |-> 0, shape |-> "none"]
ResponsesUpTo(challenges) ==
    [challenge : 1..challenges, authn : Authenticators,
     counter : 0..MaxCounter, shape : {"valid"}]
    \cup [challenge : 1..challenges, authn : {1}, counter : {0},
          shape : {"invalid", "noinfo"}]
Responses == ResponsesUpTo(MaxChallenge)

\* ---------------------------------------------------------------------------
\* Results: ServerResult<T>
\* ---------------------------------------------------------------------------
NoData == [none |-> TRUE]
Ok(d) == [success |-> TRUE, error |-> "", data |-> d]
Err(msg) == [success |-> FALSE, error |-> msg, data |-> NoData]

\* A thrown value is represented by its message; the empty message stands for
\* a thrown value that is not an Error (or an Error without message).  catch
\* blocks return (error instanceof Error && error.message) || generic.  The
\* services throw Error objects that carry the backend's detail.
NoFault == "none"
BackendDetail == "backend error detail"
InvalidToken == "Invalid token passed in the request."
Thrown == {BackendDetail}
\* A catch block that throws the error again, as handleError does
CaughtRethrown(thrown, generic) ==
    [success |-> FALSE, error |-> IF thrown # "" THEN thrown ELSE generic,
     data |-> NoData, rethrown |-> TRUE]

Caught(thrown, generic) ==
    IF thrown # "" THEN Err(thrown) ELSE Err(generic)

\* No call fails
Answering == [at |-> NoFault, thrown |-> ""]

\* A failing call of a service: the call that fails (at) and what it throws
FaultsAt(points) ==
    {[at |-> NoFault, thrown |-> ""]} \cup [at : points, thrown : Thrown]


\* The record of a call: operation, arguments, the way the call took through
\* the code (path), the value returned (res), the message of the exception
\* raised to the caller (raised), the redirect issued, whether the
\* ceremony response passed in is the one of the account's last successful
\* registration (replay), the credential the verifier reported to a call
\* that stored it (reported), and the challenge the ceremony response of a
\* call answers (answered; kept for the calls that may overlap), and the
\* argument of a finishPasskeyLogin call (input).
NoInput ==
    [passkeyId |-> NoStr, clientDataJSON |-> NoStr, authenticatorData |-> NoStr,
     signature |-> NoStr]
Call(op, email, acct, path, res) ==
    [op |-> op, email |-> email, acct |-> acct, path |-> path, res |-> res,
     raised |-> "", redirect |-> "", replay |-> FALSE, reported |-> NoData,
     answered |-> NoChallenge, input |-> NoInput]


\* ---------------------------------------------------------------------------
\* Identity store gateway
\* ---------------------------------------------------------------------------
\* documents[0] of a query result: the index of the first match, 0 for none
First(matches) ==
    IF matches = {} THEN 0
    ELSE CHOOSE i \in matches : \A j \in matches : i <= j

\* getUserByEmail: index of documents[0] of the query, 0 for no result
getUserByEmail(email) ==
    First({i \in 1..Len(docs) : docs[i].email = email})

\* A query without the accountId filter: documents[0] of the collection
getUserByAccountIdUnfiltered(accountId) ==
    First(1..Len(docs))

\* getUserByAccountId: index of documents[0] of the query, 0 for no result
getUserByAccountId(accountId) ==
    First({i \in 1..Len(docs) : docs[i].accountId = accountId})

\* The document createAccount creates; fields it does not name are absent.
NewDocument(email, accountId) ==
    [email |-> email, accountId |-> accountId, authMethod |-> "otp",
     hasPasskey |-> FALSE, passKeyCount |-> 0,
     credentialID |-> NoStr, credentialPublicKey |-> NoStr,
     counter |-> NoCounter,
     currentChallenge |-> NoChallenge, currentAuthChallenge |-> NoChallenge]

\* Callers whose createAccount calls may overlap, and a caller without a
\* call in flight
Callers == {"c1", "c2"}
Idle == [email |-> "", existing |-> FALSE, accountId |-> NullId]

\* The components as they are mounted: the modal open and without error,
\* the forms without accountId; no event handled and no result received
InitModal ==
    [isOpen |-> TRUE, error |-> "", toast |-> "", pushed |-> "",
     onSuccess |-> FALSE]
InitForm ==
    [accountId |-> NullId, hasPasskey |-> FALSE, toast |-> "", started |-> "",
     email |-> "", pushed |-> "", trail |-> << >>]
InitUi ==
    [event |-> "none", result |-> NoData, modal |-> InitModal,
     page |-> InitForm, form |-> InitForm]

\* The two ceremonies, and a caller without a WebAuthn call in flight
CeremonyKinds == {"registration", "login"}
NoCall == [op |-> "none"]

\* No bytes have been encoded: the input, the side that encodes (the passkey
\* module or the client's biometricDetector), the text and the decoded value
NotThrown(bytes) == [thrown |-> FALSE, bytes |-> bytes]
NoCodec ==
    [stage |-> "none", side |-> "none", bytes |-> << >>, text |-> << >>,
     back |-> NotThrown(<< >>)]

\* useState("idle") of a scanner component; no scan was started (clicks), no
\* onScan call is in flight, no reset timer is set; scan is the scan whose
\* step set the state, event and by the last step and its scan
Scanners == {"FingerprintScanner", "FaceIDScanner"}
InitScanner ==
    [state |-> "idle", clicks |-> 0, inFlight |-> {}, timers |-> {},
     scan |-> 0, event |-> "none", by |-> 0]

\* The server, the token issuer and the forms before the first request, for
\* the given e-mail addresses
InitServer(emails) ==
    /\ docs = << >>
    /\ users = [e \in emails |-> NullId]
    /\ tokens = [u \in 1..Cardinality(emails) |-> {}]
    /\ sessions = {}
    /\ nextSession = 0
    /\ nextChallenge = 0
    /\ jar = [c \in CookieNames |-> NoCookie]
    /\ last = Call("init", "", NullId, "ok", Ok(NoData))
    /\ loginVerified = {}
    /\ okReg = [a \in 1..Cardinality(emails) |-> NoResp]
    /\ signUps = [e \in emails |-> NullId]
    /\ pending = [c \in Callers |-> Idle]
    /\ issued = [kind \in CeremonyKinds |-> {}]
    /\ calls = [c \in Callers |-> NoCall]
    /\ consumed = {}
    /\ ui = InitUi

\* The state before the first request
InitWith(emails) ==
    /\ InitServer(emails)
    /\ codec = NoCodec
    /\ scanner = [c \in Scanners |-> InitScanner]

Init == InitWith(Emails)

\* ---------------------------------------------------------------------------
\* Token issuer
\* ---------------------------------------------------------------------------
\* account.createEmailToken(ID.unique(), email): the user of that e-mail,
\* created with the fresh id when there is none, gets one more code.  The
\* value is the userId of the token.
NumUsers == Cardinality({e \in Addresses : users[e] # NullId})

createEmailToken(email) ==
    IF users[email] # NullId THEN users[email] ELSE NumUsers + 1

DispatchCode(email, code) ==
    LET u == createEmailToken(email) IN
    /\ users' = [users EXCEPT ![email] = u]
    /\ tokens' = [tokens EXCEPT ![u] = @ \cup {code}]

\* The bound on the sessions of one behaviour
CanCreateSession == nextSession < MaxSessions

\* A new session of the issuer: its id and its secret are fresh and differ
NewSession(userId) ==
    [id |-> 2 * nextSession + 1, secret |-> 2 * nextSession + 2, userId |-> userId]

\* ---------------------------------------------------------------------------
\* OTP authentication flow
\* ---------------------------------------------------------------------------
\* sendEmailOTP({email}): the value returned
sendEmailOTPResult(email, fault) ==
    IF fault.at = "issuer"
      THEN Caught(fault.thrown, "Failed to send email OTP")
      ELSE Ok([accountId |-> createEmailToken(email)])

SendEmailOTPCall ==
    \E email \in Addresses, code \in Codes, fault \in FaultsAt({"issuer"}) :
        /\ IF fault.at = "issuer" THEN UNCHANGED << users, tokens >>
                                  ELSE DispatchCode(email, code)
        /\ last' = Call("sendEmailOTP", email, NullId,
                        IF fault.at = "issuer" THEN "sendFailed" ELSE "sent",
                        sendEmailOTPResult(email, fault))
        /\ UNCHANGED << docs, sessions, nextSession, nextChallenge, jar,
                        loginVerified, okReg, signUps,
                        pending, issued, calls, consumed, codec,
                        scanner >>

SendEmailOTP == SendEmailOTPCall /\ UNCHANGED ui

\* createAccount without the test of existingUser
createAccountPathUnchecked(email, fault) ==
    IF fault.at = "lookup" THEN "lookupFailed"
    ELSE IF fault.at = "issuer" THEN "sendFailed"
    ELSE IF fault.at = "create" THEN "createFailed"
    ELSE "created"

\* createAccount({fullName, email}): the way the call takes
createAccountPath(email, fault) ==
    IF fault.at = "lookup" THEN "lookupFailed"
    ELSE IF fault.at = "issuer" THEN "sendFailed"
    ELSE IF getUserByEmail(email) # 0 THEN "existing"
    ELSE IF fault.at = "create" THEN "createFailed"
    ELSE "created"

\* The value createAccount returns
createAccountResult(email, fault) ==
    LET path == createAccountPath(email, fault) IN
    IF path = "sendFailed" THEN sendEmailOTPResult(email, fault)
    ELSE IF path \in {"lookupFailed", "createFailed"}
      THEN Caught(fault.thrown, "Failed to create account")
      ELSE Ok([accountId |-> sendEmailOTPResult(email, fault).data.accountId])

\* createAccount writing the new document over the one it found
createAccountDocsUpsert(email, path, accountId) ==
    IF path = "created" THEN Append(docs, NewDocument(email, accountId))
    ELSE IF path = "existing"
      THEN [docs EXCEPT ![getUserByEmail(email)] = NewDocument(email, accountId)]
    ELSE docs

\* createAccount creating the document before the code is dispatched
createAccountDocsBeforeSend(email, path, accountId) ==
    IF path \in {"created", "sendFailed"} /\ getUserByEmail(email) = 0
      THEN Append(docs, NewDocument(email, createEmailToken(email)))
      ELSE docs

\* The documents after createAccount: one more when no document of the
\* e-mail was found, the same otherwise
createAccountDocs(email, path, accountId) ==
    IF path = "created" THEN Append(docs, NewDocument(email, accountId))
    ELSE docs

CreateAccountCall ==
    \E email \in Addresses, code \in Codes,
       fault \in FaultsAt({"lookup", "issuer", "create"}) :
        LET path == createAccountPath(email, fault)
            res == createAccountResult(email, fault)
        IN
        /\ IF path \in {"lookupFailed", "sendFailed"}
             THEN UNCHANGED << users, tokens >>
             ELSE DispatchCode(email, code)
        /\ docs' = createAccountDocs(email, path,
                                     IF res.success THEN res.data.accountId
                                                    ELSE NullId)
        /\ last' = Call("createAccount", email, NullId, path, res)
        /\ signUps' =
             IF res.success /\ signUps[email] = NullId
               THEN [signUps EXCEPT ![email] = res.data.accountId]
               ELSE signUps
        /\ UNCHANGED << sessions, nextSession, nextChallenge, jar,
                        loginVerified, okReg,
                        pending, issued, calls, consumed, codec,
                        scanner >>

CreateAccount == CreateAccountCall /\ UNCHANGED ui

\* signInUser({email}): the way the call takes
signInUserPath(email, fault) ==
    IF fault.at = "lookup" THEN "lookupFailed"
    ELSE IF getUserByEmail(email) = 0 THEN "noUser"
    ELSE IF fault.at = "issuer" THEN "sendFailed"
    ELSE "sent"

\* signInUser reporting hasPasskey: false for every account
signInUserResultNoPasskey(email, fault) ==
    LET path == signInUserPath(email, fault)
        existingUser == getUserByEmail(email)
    IN
    IF path = "lookupFailed" THEN Caught(fault.thrown, "Failed to sign in user")
    ELSE IF path = "noUser" THEN Ok([accountId |-> NullId, hasPasskey |-> FALSE])
    ELSE IF path = "sendFailed" THEN sendEmailOTPResult(email, fault)
    ELSE Ok([accountId |-> docs[existingUser].accountId, hasPasskey |-> FALSE])

\* The value signInUser returns
signInUserResult(email, fault) ==
    LET path == signInUserPath(email, fault)
        existingUser == getUserByEmail(email)
    IN
    IF path = "lookupFailed" THEN Caught(fault.thrown, "Failed to sign in user")
    ELSE IF path = "noUser" THEN Ok([accountId |-> NullId, hasPasskey |-> FALSE])
    ELSE IF path = "sendFailed" THEN sendEmailOTPResult(email, fault)
    ELSE Ok([accountId |-> docs[existingUser].accountId,
             hasPasskey |-> docs[existingUser].hasPasskey])

SignInUserCall ==
    \E email \in Addresses, code \in Codes, fault \in FaultsAt({"lookup", "issuer"}) :
        /\ IF signInUserPath(email, fault) = "sent"
             THEN DispatchCode(email, code)
             ELSE UNCHANGED << users, tokens >>
        /\ last' = Call("signInUser", email, NullId,
                        signInUserPath(email, fault),
                        signInUserResult(email, fault))
        /\ UNCHANGED << docs, sessions, nextSession, nextChallenge, jar,
                        loginVerified, okReg, signUps,
                        pending, issued, calls, consumed, codec,
                        scanner >>

SignInUser == SignInUserCall /\ UNCHANGED ui

\* account.createSession(accountId, secret): the issuer accepts the secret
\* when it is an outstanding code of that user, and the code is used up
IssuerAccepts(accountId, password) == password \in tokens[accountId]

\* A primary cookie that scripts of the page can read
VerifySecretCookieReadable(session) ==
    [SessionCookie(session.secret) EXCEPT !.httpOnly = FALSE]

\* The primary cookie verifySecret sets for the session it got
VerifySecretCookie(session) == SessionCookie(session.secret)

\* verifySecret({accountId, password}): the way the call takes
verifySecretPath(accountId, password, fault) ==
    IF fault.at = "issuer" THEN "issuerFailed"
    ELSE IF ~IssuerAccepts(accountId, password) THEN "rejected"
    ELSE "ok"

\* verifySecret({accountId, password}): the value returned
verifySecretResult(accountId, password, fault) ==
    LET path == verifySecretPath(accountId, password, fault) IN
    IF path = "issuerFailed" THEN Caught(fault.thrown, "Failed to verify OTP")
    ELSE IF path = "rejected" THEN Caught(InvalidToken, "Failed to verify OTP")
    ELSE Ok([sessionId |-> NewSession(accountId).id])

VerifySecretCall ==
    \E accountId \in AccountIdInputs, password \in Guesses,
       fault \in FaultsAt({"issuer"}) :
        LET path == verifySecretPath(accountId, password, fault)
            session == NewSession(accountId)
        IN
        /\ path = "ok" => CanCreateSession
        /\ IF path = "ok"
             THEN /\ tokens' = [tokens EXCEPT ![accountId] = @ \ {password}]
                  /\ sessions' = sessions \cup {session}
                  /\ nextSession' = nextSession + 1
                  /\ jar' = [jar EXCEPT ![PrimaryCookie] = VerifySecretCookie(session)]
             ELSE UNCHANGED << tokens, sessions, nextSession, jar >>
        /\ last' = Call("verifySecret", "", accountId, path,
                        verifySecretResult(accountId, password, fault))
        /\ UNCHANGED << docs, users, nextChallenge, loginVerified, okReg, signUps,
                        pending, issued, calls, consumed, codec,
                        scanner >>

VerifySecret == VerifySecretCall /\ UNCHANGED ui

\* A secondary cookie sent with cross-site requests as well
createPasskeySessionCookieLax(accountId) ==
    [SessionCookie(accountId) EXCEPT !.sameSite = "lax"]

\* The secondary cookie createPasskeySession sets: the accountId itself
createPasskeySessionCookie(accountId) == SessionCookie(accountId)

\* createPasskeySession(accountId): only the cookie store is written
CreatePasskeySessionCall ==
    \E accountId \in AccountIdInputs :
        /\ jar' = [jar EXCEPT ![SecondaryCookie] =
                                   createPasskeySessionCookie(accountId)]
        /\ last' = Call("createPasskeySession", "", accountId, "ok",
                        Ok([accountId |-> accountId]))
        /\ UNCHANGED << docs, users, tokens, sessions, nextSession,
                        nextChallenge, loginVerified, okReg, signUps,
                        pending, issued, calls, consumed, codec,
                        scanner >>

CreatePasskeySession == CreatePasskeySessionCall /\ UNCHANGED ui

\* createSessionClient + account.deleteSession("current"): the session the
\* primary cookie names, when there is one
CurrentSession == {s \in sessions : s.secret = jar[PrimaryCookie].value}

\* The cookie store when the cookies are deleted only after a revocation
\* that went through
signOutUserJarOnRevoke(fault) ==
    IF fault.at = "issuer" THEN jar ELSE [c \in CookieNames |-> NoCookie]

\* The cookie store after signOutUser: both cookies deleted
signOutUserJar(fault) == [c \in CookieNames |-> NoCookie]

\* signOutUser(): revocation is best effort, both cookies are deleted, and
\* the finally block redirects whatever happened
SignOutUser ==
    \E fault \in FaultsAt({"issuer"}) :
        /\ sessions' = IF fault.at = "issuer" THEN sessions
                       ELSE sessions \ CurrentSession
        /\ jar' = signOutUserJar(fault)
        /\ last' = [Call("signOutUser", "", NullId,
                         IF fault.at = "issuer" \/ CurrentSession = {}
                           THEN "notRevoked" ELSE "revoked",
                         Ok(NoData))
                        EXCEPT !.redirect = "/auth"]
        /\ UNCHANGED << docs, users, tokens, nextSession, nextChallenge,
                        loginVerified, okReg, signUps, pending, issued, calls, consumed, ui, codec,
                        scanner >>

\* getCustomPasskeySessionAccountId(): the accountId in the secondary cookie,
\* null when the cookie is absent
getCustomPasskeySessionAccountId ==
    IF jar[SecondaryCookie] = NoCookie THEN NullId
    ELSE jar[SecondaryCookie].value

\* account.get() of the session client: the user of the current session
SessionUser == (CHOOSE s \in CurrentSession : TRUE).userId

\* The way of getCurrentUser on the backing-service session (step 2)
SessionPath(fault) ==
    IF CurrentSession = {} THEN "noSession"
    ELSE IF fault.at \in {"issuer", "lookup"} THEN "sessionFailed"
    ELSE IF getUserByAccountId(SessionUser) = 0 THEN "noSessionUser"
    ELSE "sessionUser"

\* getCurrentUser asking the backing-service session first whenever the
\* primary cookie is there
getCurrentUserPathSessionFirst(fault) ==
    LET customAccountId == getCustomPasskeySessionAccountId IN
    IF jar[PrimaryCookie] # NoCookie \/ customAccountId = NullId
      THEN SessionPath(fault)
    ELSE IF fault.at = "lookup" THEN "lookupFailed"
    ELSE IF getUserByAccountId(customAccountId) = 0 THEN "noUser"
    ELSE "passkeyUser"

\* getCurrentUser(): the way the call takes
getCurrentUserPath(fault) ==
    LET customAccountId == getCustomPasskeySessionAccountId IN
    IF customAccountId # NullId THEN
        IF fault.at = "lookup" THEN "lookupFailed"
        ELSE IF getUserByAccountId(customAccountId) = 0 THEN "noUser"
        ELSE "passkeyUser"
    ELSE SessionPath(fault)

\* The value getCurrentUser returns; parseStringify(user) is the document
getCurrentUserResult(fault) ==
    LET path == getCurrentUserPath(fault) IN
    IF path = "lookupFailed" THEN Caught(fault.thrown, "Failed to get current user")
    ELSE IF path = "passkeyUser"
      THEN Ok(docs[getUserByAccountId(getCustomPasskeySessionAccountId)])
    ELSE IF path = "sessionUser"
      THEN Ok(docs[getUserByAccountId(SessionUser)])
    ELSE Ok(NoData)

GetCurrentUser ==
    \E fault \in FaultsAt({"lookup", "issuer"}) :
        /\ last' = Call("getCurrentUser", "", NullId, getCurrentUserPath(fault),
                        getCurrentUserResult(fault))
        /\ UNCHANGED << docs, users, tokens, sessions, nextSession,
                        nextChallenge, jar, loginVerified, okReg, signUps,
                        pending, issued, calls, consumed, ui, codec,
                        scanner >>

\* ---------------------------------------------------------------------------
\* WebAuthn verifier (@simplewebauthn/server)
\* ---------------------------------------------------------------------------
Coalesce(x, absent, d) == IF x = absent THEN d ELSE x

ChallengeMismatch == "Unexpected response challenge"
CounterTooLow == "Response counter value was lower than expected"

\* verifyRegistrationResponse({response, expectedChallenge, ...}): throws on
\* a challenge it did not expect, reports verified:false for a response that
\* does not check out, else verified:true with the new credential.
verifyRegistrationResponse(response, expectedChallenge) ==
    IF response.challenge # expectedChallenge THEN
        [outcome |-> "throw", message |-> ChallengeMismatch]
    ELSE IF response.shape = "invalid" THEN
        [outcome |-> "unverified"]
    ELSE IF response.shape = "noinfo" THEN
        [outcome |-> "noinfo"]
    ELSE
        [outcome |-> "verified",
         credential |->
            [id |-> [kind |-> "string", val |-> CredentialIdOf(response.authn)],
             publicKey |-> [kind |-> "bytes", val |-> PublicKeyOf(response.authn)],
             counter |-> response.counter]]

\* verifyAuthenticationResponse({response, expectedChallenge, credential}):
\* throws on a challenge it did not expect and on a signature counter that
\* did not advance, reports verified:false when the signature does not check
\* out under the given public key, else verified:true with the new counter.
verifyAuthenticationResponse(response, expectedChallenge, credential) ==
    IF response.challenge # expectedChallenge THEN
        [outcome |-> "throw", message |-> ChallengeMismatch]
    ELSE IF \/ response.shape = "invalid"
            \/ PublicKeyOf(response.authn) # credential.publicKey THEN
        [outcome |-> "unverified"]
    ELSE IF /\ (response.counter > 0 \/ credential.counter > 0)
            /\ response.counter <= credential.counter THEN
        [outcome |-> "throw", message |-> CounterTooLow]
    ELSE IF response.shape = "noinfo" THEN
        [outcome |-> "verified", newCounter |-> NoCounter]
    ELSE
        [outcome |-> "verified", newCounter |-> response.counter]

\* The failing calls of a WebAuthn action: the document lookup, the ceremony
\* library (options generator or verifier), the document update
WebAuthnFaults == FaultsAt({"lookup", "ceremony", "update"})

\* ---------------------------------------------------------------------------
\* Passkey registration flow
\* ---------------------------------------------------------------------------
\* getWebAuthnRegistrationOptions({accountId}): the way the call takes
getWebAuthnRegistrationOptionsPath(accountId, fault) ==
    IF fault.at = "lookup" THEN "lookupFailed"
    ELSE IF getUserByAccountId(accountId) = 0 THEN "noUser"
    ELSE IF fault.at = "ceremony" THEN "ceremonyFailed"
    ELSE IF fault.at = "update" THEN "updateFailed"
    ELSE "ok"

\* The value returned; the options are those of the generator, passed through
getWebAuthnRegistrationOptionsResult(accountId, fault) ==
    LET path == getWebAuthnRegistrationOptionsPath(accountId, fault) IN
    IF path = "ok" THEN Ok([challenge |-> nextChallenge + 1])
    ELSE IF path = "noUser" THEN Err("User not found for WebAuthn registration")
    ELSE Caught(fault.thrown, "Failed to get WebAuthn registration options")

\* A write that leaves a challenge already stored in place
StoreRegistrationChallengeOnce(doc, challenge) ==
    IF doc.currentChallenge = NoChallenge
      THEN [doc EXCEPT !.currentChallenge = challenge]
      ELSE doc

\* updateDocument(user.$id, {currentChallenge: options.challenge})
StoreRegistrationChallenge(doc, challenge) ==
    [doc EXCEPT !.currentChallenge = challenge]

\* The call, the generator handing out at most the given number of challenges
GetWebAuthnRegistrationOptionsCall(challenges, faults) ==
    \E accountId \in AccountIdInputs, fault \in faults :
        LET path == getWebAuthnRegistrationOptionsPath(accountId, fault)
            user == getUserByAccountId(accountId)
        IN
        /\ path = "ok" => nextChallenge < challenges
        /\ IF path = "ok"
             THEN /\ docs' = [docs EXCEPT ![user] =
                                StoreRegistrationChallenge(@, nextChallenge + 1)]
                  /\ nextChallenge' = nextChallenge + 1
             ELSE UNCHANGED << docs, nextChallenge >>
        /\ last' = Call("getWebAuthnRegistrationOptions", "", accountId, path,
                        getWebAuthnRegistrationOptionsResult(accountId, fault))
        /\ okReg' = [okReg EXCEPT ![accountId] = NoResp]
        /\ issued' = IF path = "ok"
                      THEN [issued EXCEPT !["registration"] = @ \cup {accountId}]
                      ELSE issued
        /\ UNCHANGED << users, tokens, sessions, nextSession, jar,
                        loginVerified, signUps,
                        pending, calls, consumed, codec,
                        scanner >>

GetWebAuthnRegistrationOptionsWith(challenges, faults) ==
    GetWebAuthnRegistrationOptionsCall(challenges, faults) /\ UNCHANGED ui

GetWebAuthnRegistrationOptionsUpTo(challenges) ==
    GetWebAuthnRegistrationOptionsWith(challenges, WebAuthnFaults)

GetWebAuthnRegistrationOptions ==
    GetWebAuthnRegistrationOptionsUpTo(MaxChallenge)

\* The test of currentChallenge left out
AnyRegistrationChallenge(doc) == TRUE

\* if (!user.currentChallenge) is false
HasRegistrationChallenge(doc) == doc.currentChallenge # NoChallenge

\* verifyWebAuthnRegistration({accountId, credential}): the way the call takes
verifyWebAuthnRegistrationPath(accountId, credential, fault) ==
    LET user == getUserByAccountId(accountId) IN
    IF fault.at = "lookup" THEN "lookupFailed"
    ELSE IF user = 0 THEN "noUser"
    ELSE IF ~HasRegistrationChallenge(docs[user]) THEN "noChallenge"
    ELSE IF fault.at = "ceremony" THEN "ceremonyFailed"
    ELSE LET verification ==
                 verifyRegistrationResponse(credential, docs[user].currentChallenge)
         IN  IF verification.outcome # "verified" THEN verification.outcome
             ELSE IF fault.at = "update" THEN "updateFailed"
             ELSE "ok"

\* The update of a successful registration without currentChallenge: null
RegistrationUpdateKeepingChallenge(doc, reg) ==
    [doc EXCEPT !.credentialID = toBase64Url(reg.id),
                !.credentialPublicKey = toBase64Url(reg.publicKey),
                !.counter = Coalesce(reg.counter, NoCounter, 0),
                !.hasPasskey = TRUE,
                !.authMethod = "passkey",
                !.passKeyCount = doc.passKeyCount + 1]

\* The update of a successful registration with passKeyCount: 1
RegistrationUpdateCountOne(doc, reg) ==
    [doc EXCEPT !.credentialID = toBase64Url(reg.id),
                !.credentialPublicKey = toBase64Url(reg.publicKey),
                !.counter = Coalesce(reg.counter, NoCounter, 0),
                !.currentChallenge = NoChallenge,
                !.hasPasskey = TRUE,
                !.authMethod = "passkey",
                !.passKeyCount = 1]

\* The fields the successful registration writes to the document
RegistrationUpdate(doc, reg) ==
    [doc EXCEPT !.credentialID = toBase64Url(reg.id),
                !.credentialPublicKey = toBase64Url(reg.publicKey),
                !.counter = Coalesce(reg.counter, NoCounter, 0),
                !.currentChallenge = NoChallenge,
                !.hasPasskey = TRUE,
                !.authMethod = "passkey",
                !.passKeyCount = doc.passKeyCount + 1]

\* The identity store when hasPasskey is written as soon as the verifier has
\* returned, before its answer is looked at
verifyWebAuthnRegistrationDocsEarly(accountId, credential, fault) ==
    LET user == getUserByAccountId(accountId)
        path == verifyWebAuthnRegistrationPath(accountId, credential, fault)
    IN
    IF path = "ok"
      THEN [docs EXCEPT ![user] =
                RegistrationUpdate(@,
                    verifyRegistrationResponse(credential,
                                               @.currentChallenge).credential)]
    ELSE IF path \in {"unverified", "noinfo", "updateFailed"}
      THEN [docs EXCEPT ![user].hasPasskey = TRUE]
      ELSE docs

\* The identity store after the call
verifyWebAuthnRegistrationDocs(accountId, credential, fault) ==
    LET user == getUserByAccountId(accountId) IN
    IF verifyWebAuthnRegistrationPath(accountId, credential, fault) = "ok"
      THEN [docs EXCEPT ![user] =
                RegistrationUpdate(@,
                    verifyRegistrationResponse(credential,
                                               @.currentChallenge).credential)]
      ELSE docs

\* The value the call returns
verifyWebAuthnRegistrationResult(accountId, credential, fault) ==
    LET path == verifyWebAuthnRegistrationPath(accountId, credential, fault)
        user == getUserByAccountId(accountId)
        generic == "Failed to verify WebAuthn registration"
    IN
    IF path = "ok" THEN Ok([verified |-> TRUE])
    ELSE IF path = "noUser" THEN Err("User not found for WebAuthn verification")
    ELSE IF path = "noChallenge" THEN Err("No registration challenge found for user")
    ELSE IF path = "unverified" THEN Err("WebAuthn registration verification failed")
    ELSE IF path = "noinfo" THEN Err("No credential info returned from verification")
    ELSE IF path = "throw" THEN
        Caught(verifyRegistrationResponse(credential,
                                          docs[user].currentChallenge).message,
               generic)
    ELSE Caught(fault.thrown, generic)

\* Paths of the two verification actions on which the verifier was called
ReachedVerifier ==
    {"ceremonyFailed", "throw", "unverified", "noinfo", "updateFailed", "ok"}

\* The call with a ceremony response out of the given ones
VerifyWebAuthnRegistrationCall(responses, faults) ==
    \E accountId \in AccountIdInputs, credential \in responses,
       fault \in faults :
        LET path == verifyWebAuthnRegistrationPath(accountId, credential, fault) IN
        /\ docs' = verifyWebAuthnRegistrationDocs(accountId, credential, fault)
        /\ last' = [Call("verifyWebAuthnRegistration", "", accountId, path,
                         verifyWebAuthnRegistrationResult(accountId, credential, fault))
                        EXCEPT !.replay = (credential = okReg[accountId]),
                               !.reported =
                                  IF path = "ok"
                                    THEN verifyRegistrationResponse(credential,
                                             docs[getUserByAccountId(accountId)]
                                                 .currentChallenge).credential
                                    ELSE NoData]
        /\ okReg' = IF path = "ok" THEN [okReg EXCEPT ![accountId] = credential]
                    ELSE okReg
        /\ issued' = IF path = "ok"
                      THEN [issued EXCEPT !["registration"] = @ \ {accountId}]
                      ELSE issued
        /\ consumed' = IF path = "ok" THEN consumed \cup {credential.challenge}
                        ELSE consumed
        /\ UNCHANGED << users, tokens, sessions, nextSession, nextChallenge,
                        jar, loginVerified, signUps,
                        pending, calls, codec,
                        scanner >>

VerifyWebAuthnRegistrationWith(responses, faults) ==
    VerifyWebAuthnRegistrationCall(responses, faults) /\ UNCHANGED ui

VerifyWebAuthnRegistrationOf(responses) ==
    VerifyWebAuthnRegistrationWith(responses, WebAuthnFaults)

VerifyWebAuthnRegistration == VerifyWebAuthnRegistrationOf(Responses)

\* registerUserPasskey({email, accountId}): the way the call takes
registerUserPasskeyPath(email, fault) ==
    IF fault.at = "lookup" THEN "lookupFailed"
    ELSE IF getUserByEmail(email) = 0 THEN "noUser"
    ELSE IF fault.at = "update" THEN "updateFailed"
    ELSE "ok"

RegisterUserPasskeyCall ==
    \E email \in Addresses, accountId \in AccountIdInputs,
       fault \in FaultsAt({"lookup", "update"}) :
        LET path == registerUserPasskeyPath(email, fault)
            user == getUserByEmail(email)
        IN
        /\ docs' = IF path = "ok"
                     THEN [docs EXCEPT ![user].hasPasskey = TRUE,
                                       ![user].authMethod = "passkey"]
                     ELSE docs
        /\ last' = Call("registerUserPasskey", email, accountId, path,
                        IF path = "ok" THEN Ok([success |-> TRUE])
                        ELSE IF path = "noUser" THEN Err("User not found")
                        ELSE Caught(fault.thrown, "Failed to register passkey"))
        /\ UNCHANGED << users, tokens, sessions, nextSession, nextChallenge,
                        jar, loginVerified, okReg, signUps,
                        pending, issued, calls, consumed, codec,
                        scanner >>

RegisterUserPasskey == RegisterUserPasskeyCall /\ UNCHANGED ui

\* ---------------------------------------------------------------------------
\* Passkey authentication flow
\* ---------------------------------------------------------------------------
\* The test of the stored credential left out
AnyCredential(doc) == TRUE

\* if (!user.credentialID || !user.credentialPublicKey) is false
HasCredential(doc) == doc.credentialID # NoStr /\ doc.credentialPublicKey # NoStr

\* getWebAuthnLoginOptions({accountId}): the way the call takes
getWebAuthnLoginOptionsPath(accountId, fault) ==
    LET user == getUserByAccountId(accountId) IN
    IF fault.at = "lookup" THEN "lookupFailed"
    ELSE IF user = 0 THEN "noUser"
    ELSE IF ~HasCredential(docs[user]) THEN "noCredential"
    ELSE IF fault.at = "ceremony" THEN "ceremonyFailed"
    ELSE IF fault.at = "update" THEN "updateFailed"
    ELSE "ok"

\* The value returned; the options are those of the generator, passed through
getWebAuthnLoginOptionsResult(accountId, fault) ==
    LET path == getWebAuthnLoginOptionsPath(accountId, fault)
        user == getUserByAccountId(accountId)
    IN
    IF path = "ok"
      THEN Ok([challenge |-> nextChallenge + 1,
               allowCredentials |-> docs[user].credentialID])
    ELSE IF path = "noUser" THEN Err("User not found for WebAuthn login")
    ELSE IF path = "noCredential"
      THEN Err("User does not have a registered WebAuthn credential")
    ELSE Caught(fault.thrown, "Failed to get WebAuthn login options")

\* The login challenge written to the field of the registration ceremony
StoreLoginChallengeAsRegistration(doc, challenge) ==
    [doc EXCEPT !.currentChallenge = challenge]

\* updateDocument(user.$id, {currentAuthChallenge: options.challenge})
StoreLoginChallenge(doc, challenge) ==
    [doc EXCEPT !.currentAuthChallenge = challenge]

\* The call, the generator handing out at most the given number of challenges
GetWebAuthnLoginOptionsCall(challenges, faults) ==
    \E accountId \in AccountIdInputs, fault \in faults :
        LET path == getWebAuthnLoginOptionsPath(accountId, fault)
            user == getUserByAccountId(accountId)
        IN
        /\ path = "ok" => nextChallenge < challenges
        /\ IF path = "ok"
             THEN /\ docs' = [docs EXCEPT ![user] =
                                StoreLoginChallenge(@, nextChallenge + 1)]
                  /\ nextChallenge' = nextChallenge + 1
             ELSE UNCHANGED << docs, nextChallenge >>
        /\ last' = Call("getWebAuthnLoginOptions", "", accountId, path,
                        getWebAuthnLoginOptionsResult(accountId, fault))
        /\ issued' = IF path = "ok"
                      THEN [issued EXCEPT !["login"] = @ \cup {accountId}]
                      ELSE issued
        /\ UNCHANGED << users, tokens, sessions, nextSession, jar,
                        loginVerified, okReg, signUps,
                        pending, calls, consumed, codec,
                        scanner >>

GetWebAuthnLoginOptionsWith(challenges, faults) ==
    GetWebAuthnLoginOptionsCall(challenges, faults) /\ UNCHANGED ui

GetWebAuthnLoginOptionsUpTo(challenges) ==
    GetWebAuthnLoginOptionsWith(challenges, WebAuthnFaults)

GetWebAuthnLoginOptions == GetWebAuthnLoginOptionsUpTo(MaxChallenge)

\* if (!user.currentAuthChallenge) is false
HasAuthChallenge(doc) == doc.currentAuthChallenge # NoChallenge

\* The credential handed to the verifier
StoredCredential(doc) ==
    [id |-> doc.credentialID,
     publicKey |-> fromBase64Url(doc.credentialPublicKey),
     counter |-> Coalesce(doc.counter, NoCounter, 0)]

\* verifyWebAuthnLogin({accountId, credential}): the way the call takes
verifyWebAuthnLoginPath(accountId, credential, fault) ==
    LET user == getUserByAccountId(accountId) IN
    IF fault.at = "lookup" THEN "lookupFailed"
    ELSE IF user = 0 THEN "noUser"
    ELSE IF ~HasAuthChallenge(docs[user]) THEN "noChallenge"
    ELSE IF ~HasCredential(docs[user]) THEN "noCredential"
    ELSE IF fault.at = "ceremony" THEN "ceremonyFailed"
    ELSE LET verification ==
                 verifyAuthenticationResponse(credential,
                                              docs[user].currentAuthChallenge,
                                              StoredCredential(docs[user]))
         IN  IF verification.outcome # "verified" THEN verification.outcome
             ELSE IF fault.at = "update" THEN "updateFailed"
             ELSE "ok"

\* The update of a verified login without currentAuthChallenge: null
LoginUpdateKeepingChallenge(doc, newCounter) ==
    [doc EXCEPT !.counter = newCounter]

\* The fields the verified login writes to the document
LoginUpdate(doc, newCounter) ==
    [doc EXCEPT !.counter = newCounter, !.currentAuthChallenge = NoChallenge]

\* The identity store when the counter of the response is also written for a
\* response the verifier did not accept
verifyWebAuthnLoginDocsEager(accountId, credential, fault) ==
    LET user == getUserByAccountId(accountId) IN
    IF verifyWebAuthnLoginPath(accountId, credential, fault) \in {"ok", "unverified"}
      THEN [docs EXCEPT ![user] = LoginUpdate(@, credential.counter)]
      ELSE docs

\* The identity store after the call
verifyWebAuthnLoginDocs(accountId, credential, fault) ==
    LET user == getUserByAccountId(accountId) IN
    IF verifyWebAuthnLoginPath(accountId, credential, fault) = "ok"
      THEN LET verification ==
                   verifyAuthenticationResponse(credential,
                                                docs[user].currentAuthChallenge,
                                                StoredCredential(docs[user]))
               newCounter ==
                   Coalesce(verification.newCounter, NoCounter,
                            Coalesce(docs[user].counter, NoCounter, 0))
           IN  [docs EXCEPT ![user] = LoginUpdate(@, newCounter)]
      ELSE docs

\* verifyWebAuthnLogin returning a failure for a response the verifier did
\* not accept, as the registration does
verifyWebAuthnLoginResultStrict(accountId, credential, fault) ==
    LET path == verifyWebAuthnLoginPath(accountId, credential, fault)
        user == getUserByAccountId(accountId)
        generic == "Failed to verify WebAuthn login"
    IN
    IF path = "ok" THEN Ok([verified |-> TRUE])
    ELSE IF path = "unverified" THEN Err("WebAuthn login verification failed")
    ELSE IF path = "noUser" THEN Err("User not found for WebAuthn login verification")
    ELSE IF path = "noChallenge" THEN Err("No auth challenge stored for user")
    ELSE IF path = "noCredential" THEN Err("No stored WebAuthn credential for user")
    ELSE IF path = "throw" THEN
        Caught(verifyAuthenticationResponse(credential,
                                            docs[user].currentAuthChallenge,
                                            StoredCredential(docs[user])).message,
               generic)
    ELSE Caught(fault.thrown, generic)

\* The value the call returns
verifyWebAuthnLoginResult(accountId, credential, fault) ==
    LET path == verifyWebAuthnLoginPath(accountId, credential, fault)
        user == getUserByAccountId(accountId)
        generic == "Failed to verify WebAuthn login"
    IN
    IF path = "ok" THEN Ok([verified |-> TRUE])
    ELSE IF path = "unverified" THEN Ok([verified |-> FALSE])
    ELSE IF path = "noUser" THEN Err("User not found for WebAuthn login verification")
    ELSE IF path = "noChallenge" THEN Err("No auth challenge stored for user")
    ELSE IF path = "noCredential" THEN Err("No stored WebAuthn credential for user")
    ELSE IF path = "throw" THEN
        Caught(verifyAuthenticationResponse(credential,
                                            docs[user].currentAuthChallenge,
                                            StoredCredential(docs[user])).message,
               generic)
    ELSE Caught(fault.thrown, generic)

\* The call with a ceremony response out of the given ones
VerifyWebAuthnLoginCall(responses, faults) ==
    \E accountId \in AccountIdInputs, credential \in responses,
       fault \in faults :
        LET path == verifyWebAuthnLoginPath(accountId, credential, fault) IN
        /\ docs' = verifyWebAuthnLoginDocs(accountId, credential, fault)
        /\ last' = Call("verifyWebAuthnLogin", "", accountId, path,
                        verifyWebAuthnLoginResult(accountId, credential, fault))
        /\ loginVerified' = IF path = "ok" THEN loginVerified \cup {accountId}
                            ELSE loginVerified
        /\ issued' = IF path = "ok"
                      THEN [issued EXCEPT !["login"] = @ \ {accountId}]
                      ELSE issued
        /\ consumed' = IF path = "ok" THEN consumed \cup {credential.challenge}
                        ELSE consumed
        /\ UNCHANGED << users, tokens, sessions, nextSession, nextChallenge,
                        jar, okReg, signUps,
                        pending, calls, codec,
                        scanner >>

VerifyWebAuthnLoginWith(responses, faults) ==
    VerifyWebAuthnLoginCall(responses, faults) /\ UNCHANGED ui

VerifyWebAuthnLoginOf(responses) ==
    VerifyWebAuthnLoginWith(responses, WebAuthnFaults)

VerifyWebAuthnLogin == VerifyWebAuthnLoginOf(Responses)

\* ---------------------------------------------------------------------------
\* Passkey login through the backing service (lib/appwrite/passkey)
\* ---------------------------------------------------------------------------
\* safeString: input.trim()
RECURSIVE Trim(_)
Trim(str) ==
    IF Len(str) = 0 THEN str
    ELSE IF str[1] = " " THEN Trim(Tail(str))
    ELSE IF str[Len(str)] = " " THEN Trim(SubSeq(str, 1, Len(str) - 1))
    ELSE str

\* isBase64Url: /^[A-Za-z0-9_-]+={0,2}$/
isBase64Url(value) ==
    \E pad \in 0..2 :
        /\ Len(value) > pad
        /\ \A i \in 1..(Len(value) - pad) :
              \E k \in 1..64 : Base64UrlAlphabet[k] = value[i]
        /\ \A i \in (Len(value) - pad + 1)..Len(value) : value[i] = "="

\* ensureBase64Url does not throw
ensureBase64Url(input) == isBase64Url(Trim(input))

\* ---------------------------------------------------------------------------
\* bufferToBase64Url / base64UrlToBuffer of the passkey module and of the
\* client's biometricDetector, over btoa and atob
\* ---------------------------------------------------------------------------
MaxBytes == 4                      \* longest byte sequence encoded
ByteValues == {0, 251, 255}        \* bytes; 251 and 255 encode to "+" and "/"
ByteSeqs == UNION {[1..n -> ByteValues] : n \in 0..MaxBytes}

\* The alphabet of btoa and atob
Base64Alphabet ==
    [i \in 1..64 |-> IF i = 63 THEN "+" ELSE IF i = 64 THEN "/"
                     ELSE Base64UrlAlphabet[i]]
Base64Char(n) == Base64Alphabet[n + 1]
Base64ValueOf(ch) == (CHOOSE i \in 1..64 : Base64Alphabet[i] = ch) - 1

\* btoa of the binary string of the bytes: padded with "="
RECURSIVE btoa(_)
btoa(bytes) ==
    IF Len(bytes) = 0 THEN << >>
    ELSE IF Len(bytes) = 1 THEN
        LET n == bytes[1] * 16
        IN  << Base64Char(n \div 64), Base64Char(n % 64), "=", "=" >>
    ELSE IF Len(bytes) = 2 THEN
        LET n == (bytes[1] * 256 + bytes[2]) * 4
        IN  << Base64Char(n \div 4096), Base64Char((n \div 64) % 64),
               Base64Char(n % 64), "=" >>
    ELSE
        LET n == bytes[1] * 65536 + bytes[2] * 256 + bytes[3]
        IN  << Base64Char(n \div 262144), Base64Char((n \div 4096) % 64),
               Base64Char((n \div 64) % 64), Base64Char(n % 64) >>
            \o btoa(SubSeq(bytes, 4, Len(bytes)))

\* The bytes of base64 text without padding
RECURSIVE atobBytes(_)
atobBytes(str) ==
    IF Len(str) < 2 THEN << >>
    ELSE IF Len(str) = 2 THEN
        LET n == Base64ValueOf(str[1]) * 64 + Base64ValueOf(str[2])
        IN  << n \div 16 >>
    ELSE IF Len(str) = 3 THEN
        LET n == Base64ValueOf(str[1]) * 4096 + Base64ValueOf(str[2]) * 64
                 + Base64ValueOf(str[3])
        IN  << n \div 1024, (n \div 4) % 256 >>
    ELSE
        LET n == Base64ValueOf(str[1]) * 262144 + Base64ValueOf(str[2]) * 4096
                 + Base64ValueOf(str[3]) * 64 + Base64ValueOf(str[4])
        IN  << n \div 65536, (n \div 256) % 256, n % 256 >>
            \o atobBytes(SubSeq(str, 5, Len(str)))

\* atob: one or two "=" at the end of text of a length divisible by 4 are
\* dropped; text of length 1 modulo 4 or with a character outside the
\* alphabet makes it throw
InvalidText == [thrown |-> TRUE, bytes |-> << >>]
atob(str) ==
    LET n == Len(str)
        data == IF n > 0 /\ n % 4 = 0 /\ str[n] = "="
                  THEN IF str[n - 1] = "=" THEN SubSeq(str, 1, n - 2)
                                           ELSE SubSeq(str, 1, n - 1)
                  ELSE str
    IN  IF \/ Len(data) % 4 = 1
           \/ \E i \in 1..Len(data) :
                  \A k \in 1..64 : Base64Alphabet[k] # data[i]
          THEN InvalidText
          ELSE NotThrown(atobBytes(data))

\* str.replace(/from/g, to) for a single character
RECURSIVE ReplaceChar(_, _, _)
ReplaceChar(str, from, to) ==
    IF Len(str) = 0 THEN << >>
    ELSE << IF str[1] = from THEN to ELSE str[1] >>
         \o ReplaceChar(Tail(str), from, to)

\* str.replace(/=+$/, "")
RECURSIVE StripPadding(_)
StripPadding(str) ==
    IF Len(str) > 0 /\ str[Len(str)] = "="
      THEN StripPadding(SubSeq(str, 1, Len(str) - 1))
      ELSE str

\* "=".repeat(n), and "==".slice(0, n)
Repeat(n) == [i \in 1..n |-> "="]
Slice(n) == Repeat(IF n < 2 THEN n ELSE 2)

\* bufferToBase64Url of the passkey module
bufferToBase64Url(bytes) ==
    StripPadding(ReplaceChar(ReplaceChar(btoa(bytes), "+", "-"), "/", "_"))

\* base64UrlToBuffer of the passkey module
base64UrlToBuffer(base64url) ==
    IF ~isBase64Url(base64url) THEN InvalidText
    ELSE atob(ReplaceChar(ReplaceChar(base64url, "-", "+"), "_", "/")
              \o Slice((4 - (Len(base64url) % 4)) % 4))

\* bufferToBase64Url of biometricDetector
detectorBufferToBase64Url(bytes) ==
    StripPadding(ReplaceChar(ReplaceChar(btoa(bytes), "+", "-"), "/", "_"))

\* base64UrlToBuffer of biometricDetector
detectorBase64UrlToBuffer(base64url) ==
    LET base64 == ReplaceChar(ReplaceChar(base64url, "-", "+"), "_", "/")
        pad == Len(base64) % 4
    IN  atob(IF pad # 0 THEN base64 \o Repeat(4 - pad) ELSE base64)

\* The two steps of a round trip through the passkey module
PasskeyEncode ==
    /\ codec.stage = "input"
    /\ codec' = [codec EXCEPT !.stage = "encoded", !.side = "passkey",
                              !.text = bufferToBase64Url(codec.bytes)]
    /\ UNCHANGED << docs, users, tokens, sessions, nextSession, nextChallenge,
                    jar, last, loginVerified, okReg, signUps, pending, issued,
                    calls, consumed, ui, scanner >>

PasskeyDecode ==
    /\ codec.stage = "encoded"
    /\ codec.side = "passkey"
    /\ codec' = [codec EXCEPT !.stage = "decoded",
                              !.back = base64UrlToBuffer(codec.text)]
    /\ UNCHANGED << docs, users, tokens, sessions, nextSession, nextChallenge,
                    jar, last, loginVerified, okReg, signUps, pending, issued,
                    calls, consumed, ui, scanner >>

\* The two steps of a round trip through biometricDetector
DetectorEncode ==
    /\ codec.stage = "input"
    /\ codec' = [codec EXCEPT !.stage = "encoded", !.side = "detector",
                              !.text = detectorBufferToBase64Url(codec.bytes)]
    /\ UNCHANGED << docs, users, tokens, sessions, nextSession, nextChallenge,
                    jar, last, loginVerified, okReg, signUps, pending, issued,
                    calls, consumed, ui, scanner >>

DetectorDecode ==
    /\ codec.stage = "encoded"
    /\ codec.side = "detector"
    /\ codec' = [codec EXCEPT !.stage = "decoded",
                              !.back = detectorBase64UrlToBuffer(codec.text)]
    /\ UNCHANGED << docs, users, tokens, sessions, nextSession, nextChallenge,
                    jar, last, loginVerified, okReg, signUps, pending, issued,
                    calls, consumed, ui, scanner >>

\* Inputs of finishPasskeyLogin: a well-formed one, one per field that can be
\* malformed (standard base64 text as btoa produces it is not base64url)
GoodField == << "A", "Q", "=", "=" >>
FinishInputs ==
    {[passkeyId |-> << "p", "k" >>, clientDataJSON |-> << " ", "A", "Q" >>,
      authenticatorData |-> GoodField, signature |-> GoodField],
     [passkeyId |-> NoStr, clientDataJSON |-> GoodField,
      authenticatorData |-> GoodField, signature |-> GoodField],
     [passkeyId |-> << "p", "k" >>, clientDataJSON |-> << "+", "w" >>,
      authenticatorData |-> GoodField, signature |-> GoodField],
     [passkeyId |-> << "p", "k" >>, clientDataJSON |-> GoodField,
      authenticatorData |-> << "/", "w" >>, signature |-> GoodField],
     [passkeyId |-> << "p", "k" >>, clientDataJSON |-> GoodField,
      authenticatorData |-> GoodField, signature |-> << >>]}

\* What account.updatePasskeySession answers: a session of a user, a session
\* without secret, or an exception
PasskeySessionAnswers == {"session", "nosecret", "throw"}

\* finishPasskeyLogin without the test of the signature field
finishPasskeyLoginPathUnchecked(input, answer) ==
    IF input.passkeyId = NoStr THEN "invalidInput"
    ELSE IF ~ensureBase64Url(input.clientDataJSON) THEN "invalidInput"
    ELSE IF ~ensureBase64Url(input.authenticatorData) THEN "invalidInput"
    ELSE IF answer = "throw" THEN "serviceFailed"
    ELSE IF answer = "nosecret" THEN "invalidSession"
    ELSE "ok"

\* finishPasskeyLogin(input): the way the call takes
finishPasskeyLoginPath(input, answer) ==
    IF input.passkeyId = NoStr THEN "invalidInput"
    ELSE IF ~ensureBase64Url(input.clientDataJSON) THEN "invalidInput"
    ELSE IF ~ensureBase64Url(input.authenticatorData) THEN "invalidInput"
    ELSE IF ~ensureBase64Url(input.signature) THEN "invalidInput"
    ELSE IF answer = "throw" THEN "serviceFailed"
    ELSE IF answer = "nosecret" THEN "invalidSession"
    ELSE "ok"

FinishPasskeyLogin ==
    \E input \in FinishInputs, answer \in PasskeySessionAnswers, userId \in AccountIdInputs :
        LET path == finishPasskeyLoginPath(input, answer)
            session == NewSession(userId)
        IN
        /\ path = "ok" => CanCreateSession /\ (\E e \in Addresses : users[e] = userId)
        /\ IF path = "ok"
             THEN /\ sessions' = sessions \cup {session}
                  /\ nextSession' = nextSession + 1
                  /\ jar' = [jar EXCEPT ![PrimaryCookie] = SessionCookie(session.secret)]
                  /\ last' = [Call("finishPasskeyLogin", "", userId, path,
                                    Ok(session))
                                EXCEPT !.input = input]
             ELSE /\ UNCHANGED << sessions, nextSession, jar >>
                  /\ last' = [Call("finishPasskeyLogin", "", NullId, path, Err(""))
                                EXCEPT !.raised = "Failed to finish passkey login.",
                                       !.input = input]
        /\ UNCHANGED << docs, users, tokens, nextChallenge, loginVerified,
                        okReg, signUps,
                        pending, issued, calls, consumed, ui, codec,
                        scanner >>

\* ---------------------------------------------------------------------------
\* The browser: the verification modal and the two sign-in forms.  A handler
\* is followed to the point where it has the result of its server action and
\* has set its state; the ceremonies it then starts are calls of the WebAuthn
\* actions.
\* ---------------------------------------------------------------------------
\* if (value) for a value that is an object: every object is true
ToBoolean(object) == TRUE

\* user?.accountId and user.hasPasskey || false: a property the object does
\* not have reads as undefined, which tests like null and like false
accountIdOf(user) ==
    IF "accountId" \in DOMAIN user THEN user.accountId ELSE NullId
hasPasskeyOf(user) ==
    IF "hasPasskey" \in DOMAIN user THEN user.hasPasskey ELSE FALSE

Otps == Guesses \cup {"123"}       \* what the user may type into the modal
SignInMethods == {"otp", "passkey"}

\* handleOtpSubmit once verifySecret has returned sessionId
handleOtpSubmit(modal, sessionId, hasOnSuccess) ==
    IF ToBoolean(sessionId)
      THEN [modal EXCEPT !.error = "", !.toast = "OTP verified",
                         !.isOpen = FALSE, !.onSuccess = hasOnSuccess,
                         !.pushed = IF hasOnSuccess THEN "" ELSE "/docs"]
      ELSE [modal EXCEPT !.error = "Invalid OTP. Please try again.",
                         !.toast = "Invalid OTP"]

\* handleResendOtp: the state of the modal after await sendEmailOTP, which
\* either returned (raised is empty) or threw into the catch block
handleResendOtp(modal, raised) ==
    IF raised = ""
      THEN [modal EXCEPT !.error = "", !.toast = "OTP resent"]
      ELSE [modal EXCEPT !.error = "Failed to resend OTP",
                         !.toast = "Resend failed"]

\* The modal is rendered by a form that holds an accountId
ModalAccountIds ==
    {ui.page.accountId, ui.form.accountId} \ {NullId}

\* handleOtpSubmit: a code that is not six characters long is turned down
\* in the browser; any other is passed to verifySecret
HandleOtpSubmit ==
    /\ ui.modal.isOpen
    /\ ModalAccountIds # {}
    /\ \/ /\ \E otp \in Otps :
                /\ Len(otp) # 6
                /\ ui' = [ui EXCEPT
                            !.event = "otpRejected",
                            !.modal.error = "Please enter a valid 6-digit OTP",
                            !.modal.toast = "Invalid OTP"]
          /\ UNCHANGED << docs, users, tokens, sessions, nextSession,
                          nextChallenge, jar, last, loginVerified, okReg,
                          signUps, pending, issued, calls, consumed, codec,
                        scanner >>
       \/ /\ VerifySecretCall
          /\ last'.acct \in ModalAccountIds
          /\ \E hasOnSuccess \in BOOLEAN :
                ui' = [ui EXCEPT
                         !.event = "otpSubmit",
                         !.result = last'.res,
                         !.modal = handleOtpSubmit(@, last'.res, hasOnSuccess)]

\* onSubmit of both forms, sign-in panel, from the user object on
signInWith(form, signInMethod, accountId, hasPasskey) ==
    IF accountId = NullId
      THEN [form EXCEPT !.toast = "error", !.started = ""]
    ELSE IF signInMethod = "passkey" /\ ~hasPasskey
      THEN [form EXCEPT !.accountId = accountId, !.hasPasskey = hasPasskey,
                        !.toast = "error", !.started = ""]
    ELSE IF signInMethod = "passkey"
      THEN [form EXCEPT !.accountId = accountId, !.hasPasskey = hasPasskey,
                        !.toast = "", !.started = "passkeyLogin"]
    ELSE [form EXCEPT !.accountId = accountId, !.hasPasskey = hasPasskey,
                      !.toast = "info", !.started = ""]

\* app/auth/page.tsx, sign-in: user is what signInUser returned
pageSignIn(form, signInMethod, user) ==
    signInWith(form, signInMethod, accountIdOf(user), hasPasskeyOf(user))

\* components/AuthForm.tsx, sign-in: user is res.data of a successful res
formSignIn(form, signInMethod, res) ==
    IF ~res.success THEN [form EXCEPT !.toast = "error", !.started = ""]
    ELSE signInWith(form, signInMethod, res.data.accountId,
                    res.data.hasPasskey)

\* app/auth/page.tsx, sign-up: user is what createAccount returned
pageSignUp(form, user) ==
    IF accountIdOf(user) = NullId
      THEN [form EXCEPT !.toast = "error", !.started = ""]
      ELSE [form EXCEPT !.accountId = accountIdOf(user), !.toast = "",
                        !.started = "enrollment"]

\* components/AuthForm.tsx, sign-up
formSignUp(form, createRes) ==
    IF ~createRes.success
      THEN [form EXCEPT !.toast = "error", !.started = ""]
      ELSE [form EXCEPT !.accountId = createRes.data.accountId, !.toast = "",
                        !.started = "enrollment"]

\* onSubmit is called with the values of the form: the e-mail address is
\* values.email, nothing was pushed to the router, and no server action of
\* this submission has returned (trail)
Submitted(form, email) ==
    [form EXCEPT !.email = email, !.pushed = "", !.trail = << >>]

\* The same submission handled by the entry page and by the component
SubmitSignIn ==
    /\ SignInUserCall
    /\ \E signInMethod \in SignInMethods :
          ui' = [ui EXCEPT
                   !.event = "signIn",
                   !.result = last'.res,
                   !.page = pageSignIn(Submitted(@, last'.email),
                                       signInMethod, last'.res),
                   !.form = formSignIn(Submitted(@, last'.email),
                                       signInMethod, last'.res),
                   !.modal = IF ui.form.accountId = NullId
                                  /\ ui.page.accountId = NullId
                               THEN InitModal ELSE @]

SubmitSignUp ==
    /\ CreateAccountCall
    /\ ui' = [ui EXCEPT
                !.event = "signUp",
                !.result = last'.res,
                !.page = pageSignUp(Submitted(@, last'.email), last'.res),
                !.form = formSignUp(Submitted(@, last'.email), last'.res),
                !.modal = IF ui.form.accountId = NullId
                               /\ ui.page.accountId = NullId
                            THEN InitModal ELSE @]

\* handleResendOtp: the modal asks for a new code for its e-mail address
HandleResendOtp ==
    /\ ui.modal.isOpen
    /\ ModalAccountIds # {}
    /\ SendEmailOTPCall
    /\ ui' = [ui EXCEPT !.event = "resendOtp",
                        !.result = last'.res,
                        !.modal = handleResendOtp(ui.modal, last'.raised)]

\* The page is loaded again: the components are mounted anew
Reload ==
    /\ ui # InitUi
    /\ ui' = InitUi
    /\ UNCHANGED << docs, users, tokens, sessions, nextSession, nextChallenge,
                    jar, last, loginVerified, okReg, signUps, pending, issued,
                    calls, consumed, codec,
                        scanner >>

\* ---------------------------------------------------------------------------
\* components/AuthForm.tsx: loginWithPasskey and registerPasskeyOnClient.
\* onSubmit goes on at each await when the server action has returned; the
\* form's started names the await the handler is at.  The button is disabled
\* while the handler runs (isLoading).
\* ---------------------------------------------------------------------------
\* isLoading: set at the start of onSubmit and reset in its finally block
isLoading(form) == form.started # ""

\* A server action returned what the handler needs to go on
Succeeded(call) ==
    /\ call.res.success
    /\ call.op \in {"verifyWebAuthnRegistration", "verifyWebAuthnLogin"} =>
          call.res.data.verified
    /\ call.op = "registerUserPasskey" => call.res.data.success

\* The call is put on record for the submission
Noted(form, call) ==
    [form EXCEPT !.trail = Append(@, [op |-> call.op, ok |-> Succeeded(call)])]

\* onSubmit, catch around loginWithPasskey
passkeySignInFailed(form) ==
    [form EXCEPT !.started = "", !.toast = "Passkey sign-in failed"]

\* loginWithPasskey after getWebAuthnLoginOptions
afterLoginOptions(form, optsRes) ==
    IF ~optsRes.success THEN passkeySignInFailed(form)
    ELSE [form EXCEPT !.started = "assertion"]

\* loginWithPasskey going on whatever verifyWebAuthnLogin says of verified
afterVerifyLoginUnchecked(form, verifyRes) ==
    IF ~verifyRes.success THEN passkeySignInFailed(form)
    ELSE [form EXCEPT !.started = "session"]

\* loginWithPasskey after verifyWebAuthnLogin
afterVerifyLogin(form, verifyRes) ==
    IF ~verifyRes.success THEN passkeySignInFailed(form)
    ELSE IF ~verifyRes.data.verified THEN passkeySignInFailed(form)
    ELSE [form EXCEPT !.started = "session"]

\* loginWithPasskey after createPasskeySession, and onSubmit after it
afterCreatePasskeySession(form, sessionRes) ==
    IF ~sessionRes.success THEN passkeySignInFailed(form)
    ELSE [form EXCEPT !.started = "", !.toast = "Signed in",
                      !.pushed = "/docs"]

\* The catch around registerPasskeyOnClient returning before router.push
enrollmentFailedReturning(form) ==
    [form EXCEPT !.started = "", !.toast = "Biometric enrollment failed"]

\* onSubmit, catch around registerPasskeyOnClient, and router.push
enrollmentFailed(form) ==
    [form EXCEPT !.started = "", !.toast = "Biometric enrollment failed",
                 !.pushed = "/sign-in"]

\* registerPasskeyOnClient after getWebAuthnRegistrationOptions
afterRegistrationOptions(form, optsRes) ==
    IF ~optsRes.success THEN enrollmentFailed(form)
    ELSE [form EXCEPT !.started = "attestation"]

\* registerPasskeyOnClient after verifyWebAuthnRegistration
afterVerifyRegistration(form, verifyRes) ==
    IF ~verifyRes.success THEN enrollmentFailed(form)
    ELSE IF ~verifyRes.data.verified THEN enrollmentFailed(form)
    ELSE [form EXCEPT !.started = "flag"]

\* registerPasskeyOnClient after registerUserPasskey, and onSubmit after it
afterRegisterUserPasskey(form, regRes) ==
    IF ~regRes.success THEN enrollmentFailed(form)
    ELSE IF ~regRes.data.success THEN enrollmentFailed(form)
    ELSE [form EXCEPT !.started = "", !.hasPasskey = TRUE,
                      !.toast = "Passkey registered", !.pushed = "/sign-in"]

\* The browser's ceremony (startRegistration, startAuthentication) is
\* cancelled or fails: it throws into the catch block of onSubmit
CeremonyFrame ==
    UNCHANGED << docs, users, tokens, sessions, nextSession, nextChallenge,
                 jar, last, loginVerified, okReg, signUps, pending, issued,
                 calls, consumed, codec, scanner >>

FormSubmitSignIn ==
    /\ ~isLoading(ui.form)
    /\ ui.form.pushed = ""
    /\ SubmitSignIn

FormSubmitSignUp ==
    /\ ~isLoading(ui.form)
    /\ ui.form.pushed = ""
    /\ SubmitSignUp

FormLoginOptions ==
    /\ ui.form.started = "passkeyLogin"
    /\ GetWebAuthnLoginOptionsCall(MaxChallenge, WebAuthnFaults)
    /\ last'.acct = ui.form.accountId
    /\ ui' = [ui EXCEPT !.event = "loginOptions",
                        !.result = last'.res,
                        !.form = Noted(afterLoginOptions(@, last'.res), last')]

FormVerifyLogin ==
    /\ ui.form.started = "assertion"
    /\ \/ /\ ui' = [ui EXCEPT !.event = "assertionFailed",
                               !.form = passkeySignInFailed(@)]
          /\ CeremonyFrame
       \/ /\ VerifyWebAuthnLoginCall(Responses, WebAuthnFaults)
          /\ last'.acct = ui.form.accountId
          /\ ui' = [ui EXCEPT
                      !.event = "verifyLogin",
                      !.result = last'.res,
                      !.form = Noted(afterVerifyLogin(@, last'.res), last')]

FormCreateSession ==
    /\ ui.form.started = "session"
    /\ CreatePasskeySessionCall
    /\ last'.acct = ui.form.accountId
    /\ ui' = [ui EXCEPT
                !.event = "createSession",
                !.result = last'.res,
                !.form = Noted(afterCreatePasskeySession(@, last'.res), last')]

FormRegistrationOptions ==
    /\ ui.form.started = "enrollment"
    /\ GetWebAuthnRegistrationOptionsCall(MaxChallenge, WebAuthnFaults)
    /\ last'.acct = ui.form.accountId
    /\ ui' = [ui EXCEPT
                !.event = "registrationOptions",
                !.result = last'.res,
                !.form = Noted(afterRegistrationOptions(@, last'.res), last')]

FormVerifyRegistration ==
    /\ ui.form.started = "attestation"
    /\ \/ /\ ui' = [ui EXCEPT !.event = "attestationFailed",
                               !.form = enrollmentFailed(@)]
          /\ CeremonyFrame
       \/ /\ VerifyWebAuthnRegistrationCall(Responses, WebAuthnFaults)
          /\ last'.acct = ui.form.accountId
          /\ ui' = [ui EXCEPT
                      !.event = "verifyRegistration",
                      !.result = last'.res,
                      !.form = Noted(afterVerifyRegistration(@, last'.res),
                                     last')]

FormRegisterPasskey ==
    /\ ui.form.started = "flag"
    /\ RegisterUserPasskeyCall
    /\ last'.acct = ui.form.accountId
    /\ last'.email = ui.form.email
    /\ ui' = [ui EXCEPT
                !.event = "registerPasskey",
                !.result = last'.res,
                !.form = Noted(afterRegisterUserPasskey(@, last'.res), last')]

\* The user comes back to the form after it has navigated away
FormReload ==
    /\ ~isLoading(ui.form)
    /\ Reload

\* ---------------------------------------------------------------------------
\* Overlapping createAccount calls: every await is a point where another
\* request may run.  A call is split after it has its accountId, that is
\* after the lookup of existingUser and sendEmailOTP.
\* ---------------------------------------------------------------------------
\* createAccount from the lookup of existingUser to the accountId; a call
\* that fails here returns at once
BeginCreateAccount ==
    \E c \in Callers, email \in Addresses, code \in Codes,
       fault \in FaultsAt({"lookup", "issuer"}) :
        LET path == createAccountPath(email, fault) IN
        /\ pending[c] = Idle
        /\ IF path \in {"lookupFailed", "sendFailed"}
             THEN /\ UNCHANGED << users, tokens, pending >>
                  /\ last' = Call("createAccount", email, NullId, path,
                                  createAccountResult(email, fault))
             ELSE /\ DispatchCode(email, code)
                  /\ pending' = [pending EXCEPT ![c] =
                                    [email |-> email,
                                     existing |-> getUserByEmail(email) # 0,
                                     accountId |-> createEmailToken(email)]]
                  /\ last' = last
        /\ UNCHANGED << docs, sessions, nextSession, nextChallenge, jar,
                        loginVerified, okReg, signUps, issued, calls, consumed, ui, codec,
                        scanner >>

\* createAccount from if (!existingUser) to its return
FinishCreateAccount ==
    \E c \in Callers, fault \in FaultsAt({"create"}) :
        LET call == pending[c]
            path == IF call.existing THEN "existing"
                    ELSE IF fault.at = "create" THEN "createFailed"
                    ELSE "created"
            res == IF path = "createFailed"
                     THEN Caught(fault.thrown, "Failed to create account")
                     ELSE Ok([accountId |-> call.accountId])
        IN
        /\ call # Idle
        /\ docs' = IF path = "created"
                     THEN Append(docs, NewDocument(call.email, call.accountId))
                     ELSE docs
        /\ pending' = [pending EXCEPT ![c] = Idle]
        /\ last' = Call("createAccount", call.email, NullId, path, res)
        /\ signUps' =
             IF res.success /\ signUps[call.email] = NullId
               THEN [signUps EXCEPT ![call.email] = res.data.accountId]
               ELSE signUps
        /\ UNCHANGED << users, tokens, sessions, nextSession, nextChallenge,
                        jar, loginVerified, okReg, issued, calls, consumed, ui, codec,
                        scanner >>

\* ---------------------------------------------------------------------------
\* Overlapping WebAuthn calls: a call is split at the await of its
\* updateDocument, that is after it has read the document and has its
\* challenge or the verifier's answer.  The services answer every request;
\* a call that returns before its update does so in its first step.
\* ---------------------------------------------------------------------------
\* The responses of one authenticator, well formed or tampered with
RaceResponses ==
    {r \in ResponsesUpTo(MaxCeremonyChallenge) :
        r.authn = 1 /\ r.shape \in {"valid", "invalid"}}

\* What the rest of the call does not touch
RaceFrame ==
    UNCHANGED << users, tokens, sessions, nextSession, jar, signUps, pending, ui, codec,
                        scanner >>

\* getWebAuthnRegistrationOptions from the lookup to the generated options
BeginRegistrationOptions ==
    \E c \in Callers, accountId \in AccountIdInputs :
        LET path == getWebAuthnRegistrationOptionsPath(accountId, Answering) IN
        /\ calls[c] = NoCall
        /\ path = "ok" => nextChallenge < MaxCeremonyChallenge
        /\ IF path = "ok"
             THEN /\ calls' = [calls EXCEPT ![c] =
                                 [op |-> "registrationOptions",
                                  accountId |-> accountId,
                                  user |-> getUserByAccountId(accountId),
                                  challenge |-> nextChallenge + 1]]
                  /\ nextChallenge' = nextChallenge + 1
                  /\ UNCHANGED << last, okReg >>
             ELSE /\ last' = Call("getWebAuthnRegistrationOptions", "", accountId,
                                  path,
                                  getWebAuthnRegistrationOptionsResult(accountId,
                                                                       Answering))
                  /\ okReg' = [okReg EXCEPT ![accountId] = NoResp]
                  /\ UNCHANGED << calls, nextChallenge >>
        /\ UNCHANGED << docs, loginVerified, issued, consumed, codec,
                        scanner >>
        /\ RaceFrame

\* ... from the update of currentChallenge to the return
FinishRegistrationOptions ==
    \E c \in Callers :
        LET call == calls[c] IN
        /\ call.op = "registrationOptions"
        /\ docs' = [docs EXCEPT ![call.user] =
                       StoreRegistrationChallenge(@, call.challenge)]
        /\ calls' = [calls EXCEPT ![c] = NoCall]
        /\ last' = Call("getWebAuthnRegistrationOptions", "", call.accountId,
                        "ok", Ok([challenge |-> call.challenge]))
        /\ okReg' = [okReg EXCEPT ![call.accountId] = NoResp]
        /\ issued' = [issued EXCEPT !["registration"] = @ \cup {call.accountId}]
        /\ UNCHANGED << nextChallenge, loginVerified, consumed, codec,
                        scanner >>
        /\ RaceFrame

\* getWebAuthnLoginOptions from the lookup to the generated options
BeginLoginOptions ==
    \E c \in Callers, accountId \in AccountIdInputs :
        LET path == getWebAuthnLoginOptionsPath(accountId, Answering) IN
        /\ calls[c] = NoCall
        /\ path = "ok" => nextChallenge < MaxCeremonyChallenge
        /\ IF path = "ok"
             THEN /\ calls' = [calls EXCEPT ![c] =
                                 [op |-> "loginOptions",
                                  accountId |-> accountId,
                                  user |-> getUserByAccountId(accountId),
                                  challenge |-> nextChallenge + 1,
                                  allowCredentials |->
                                      docs[getUserByAccountId(accountId)]
                                          .credentialID]]
                  /\ nextChallenge' = nextChallenge + 1
                  /\ UNCHANGED last
             ELSE /\ last' = Call("getWebAuthnLoginOptions", "", accountId, path,
                                  getWebAuthnLoginOptionsResult(accountId, Answering))
                  /\ UNCHANGED << calls, nextChallenge >>
        /\ UNCHANGED << docs, loginVerified, okReg, issued, consumed, codec,
                        scanner >>
        /\ RaceFrame

\* ... from the update of currentAuthChallenge to the return
FinishLoginOptions ==
    \E c \in Callers :
        LET call == calls[c] IN
        /\ call.op = "loginOptions"
        /\ docs' = [docs EXCEPT ![call.user] =
                       StoreLoginChallenge(@, call.challenge)]
        /\ calls' = [calls EXCEPT ![c] = NoCall]
        /\ last' = Call("getWebAuthnLoginOptions", "", call.accountId, "ok",
                        Ok([challenge |-> call.challenge,
                            allowCredentials |-> call.allowCredentials]))
        /\ issued' = [issued EXCEPT !["login"] = @ \cup {call.accountId}]
        /\ UNCHANGED << nextChallenge, loginVerified, okReg, consumed, codec,
                        scanner >>
        /\ RaceFrame

\* The update of verifyWebAuthnRegistration, written to the document as it
\* is now; passKeyCount comes from the document the call read at its start
RegistrationWrite(current, read, reg) ==
    [RegistrationUpdate(current, reg) EXCEPT
        !.passKeyCount = read.passKeyCount + 1]

\* verifyWebAuthnRegistration from the lookup to the verifier's answer
BeginVerifyRegistration ==
    \E c \in Callers, accountId \in AccountIdInputs, credential \in RaceResponses :
        LET path == verifyWebAuthnRegistrationPath(accountId, credential, Answering)
            user == getUserByAccountId(accountId)
        IN
        /\ calls[c] = NoCall
        /\ IF path = "ok"
             THEN /\ calls' = [calls EXCEPT ![c] =
                                 [op |-> "verifyRegistration",
                                  accountId |-> accountId, user |-> user,
                                  read |-> docs[user],
                                  credential |-> credential]]
                  /\ UNCHANGED last
             ELSE /\ last' = [Call("verifyWebAuthnRegistration", "", accountId,
                                   path,
                                   verifyWebAuthnRegistrationResult(accountId,
                                       credential, Answering))
                               EXCEPT !.replay = (credential = okReg[accountId]),
                                      !.answered = credential.challenge]
                  /\ UNCHANGED calls
        /\ UNCHANGED << docs, nextChallenge, loginVerified, okReg, issued,
                        consumed, codec,
                        scanner >>
        /\ RaceFrame

\* ... from the update of the document to the return
FinishVerifyRegistration ==
    \E c \in Callers :
        LET call == calls[c]
            reg == verifyRegistrationResponse(call.credential,
                                              call.read.currentChallenge).credential
        IN
        /\ call.op = "verifyRegistration"
        /\ docs' = [docs EXCEPT ![call.user] =
                       RegistrationWrite(@, call.read, reg)]
        /\ calls' = [calls EXCEPT ![c] = NoCall]
        /\ last' = [Call("verifyWebAuthnRegistration", "", call.accountId, "ok",
                         Ok([verified |-> TRUE]))
                        EXCEPT !.replay = (call.credential = okReg[call.accountId]),
                               !.reported = reg,
                               !.answered = call.credential.challenge]
        /\ okReg' = [okReg EXCEPT ![call.accountId] = call.credential]
        /\ issued' = [issued EXCEPT !["registration"] = @ \ {call.accountId}]
        /\ consumed' = consumed \cup {call.credential.challenge}
        /\ UNCHANGED << nextChallenge, loginVerified >>
        /\ RaceFrame

\* verifyWebAuthnLogin from the lookup to the verifier's answer
BeginVerifyLogin ==
    \E c \in Callers, accountId \in AccountIdInputs, credential \in RaceResponses :
        LET path == verifyWebAuthnLoginPath(accountId, credential, Answering)
            user == getUserByAccountId(accountId)
        IN
        /\ calls[c] = NoCall
        /\ IF path = "ok"
             THEN /\ calls' = [calls EXCEPT ![c] =
                                 [op |-> "verifyLogin",
                                  accountId |-> accountId, user |-> user,
                                  read |-> docs[user],
                                  credential |-> credential]]
                  /\ UNCHANGED last
             ELSE /\ last' = [Call("verifyWebAuthnLogin", "", accountId, path,
                                   verifyWebAuthnLoginResult(accountId, credential,
                                                             Answering))
                               EXCEPT !.answered = credential.challenge]
                  /\ UNCHANGED calls
        /\ UNCHANGED << docs, nextChallenge, loginVerified, okReg, issued,
                        consumed, codec,
                        scanner >>
        /\ RaceFrame

\* ... from the update of the document to the return
FinishVerifyLogin ==
    \E c \in Callers :
        LET call == calls[c]
            verification ==
                verifyAuthenticationResponse(call.credential,
                                             call.read.currentAuthChallenge,
                                             StoredCredential(call.read))
            newCounter ==
                Coalesce(verification.newCounter, NoCounter,
                         Coalesce(call.read.counter, NoCounter, 0))
        IN
        /\ call.op = "verifyLogin"
        /\ docs' = [docs EXCEPT ![call.user] = LoginUpdate(@, newCounter)]
        /\ calls' = [calls EXCEPT ![c] = NoCall]
        /\ last' = [Call("verifyWebAuthnLogin", "", call.accountId, "ok",
                         Ok([verified |-> TRUE]))
                        EXCEPT !.answered = call.credential.challenge]
        /\ loginVerified' = loginVerified \cup {call.accountId}
        /\ issued' = [issued EXCEPT !["login"] = @ \ {call.accountId}]
        /\ consumed' = consumed \cup {call.credential.challenge}
        /\ UNCHANGED << nextChallenge, okReg >>
        /\ RaceFrame

\* ---------------------------------------------------------------------------
\* The system: the server actions, called in any order with any arguments
\* ---------------------------------------------------------------------------
Next ==
    \/ SendEmailOTP
    \/ CreateAccount
    \/ SignInUser
    \/ VerifySecret
    \/ CreatePasskeySession
    \/ SignOutUser
    \/ GetCurrentUser
    \/ GetWebAuthnRegistrationOptions
    \/ VerifyWebAuthnRegistration
    \/ RegisterUserPasskey
    \/ GetWebAuthnLoginOptions
    \/ VerifyWebAuthnLogin
    \/ FinishPasskeyLogin

Spec == Init /\ [][Next]_vars

\* The sign-up and sign-in requests of several callers, the createAccount
\* calls overlapping
NextOverlap ==
    \/ BeginCreateAccount
    \/ FinishCreateAccount
    \/ SignInUser
    \/ VerifySecret
    \/ SignOutUser

SpecOverlap == Init /\ [][NextOverlap]_vars

\* The two ceremonies of an account by themselves, one call after another,
\* with enough challenges for an enrollment, a login and one more ceremony
CeremonyRegistrationOptions ==
    GetWebAuthnRegistrationOptionsUpTo(MaxCeremonyChallenge)
CeremonyRegistrationVerification ==
    VerifyWebAuthnRegistrationOf(ResponsesUpTo(MaxCeremonyChallenge))
CeremonyLoginOptions ==
    GetWebAuthnLoginOptionsUpTo(MaxCeremonyChallenge)
CeremonyLoginVerification ==
    VerifyWebAuthnLoginOf(ResponsesUpTo(MaxCeremonyChallenge))

NextCeremony ==
    \/ CreateAccount
    \/ RegisterUserPasskey
    \/ CeremonyRegistrationOptions
    \/ CeremonyRegistrationVerification
    \/ CeremonyLoginOptions
    \/ CeremonyLoginVerification

SpecCeremony == Init /\ [][NextCeremony]_vars

\* The ceremonies with two accounts: a second address signs up as well
TwoEmails == Emails \cup {"b@x.com"}

\* The services answer every request of these calls
AccountsResponses ==
    {r \in Responses : r.counter = 0 /\ r.shape \in {"valid", "invalid"}}
AccountsRegistrationOptions ==
    GetWebAuthnRegistrationOptionsWith(MaxChallenge, {Answering})
AccountsRegistrationVerification ==
    VerifyWebAuthnRegistrationWith(AccountsResponses, {Answering})
AccountsLoginOptions ==
    GetWebAuthnLoginOptionsWith(MaxChallenge, {Answering})
AccountsLoginVerification ==
    VerifyWebAuthnLoginWith(AccountsResponses, {Answering})

NextAccounts ==
    \/ CreateAccount
    \/ AccountsRegistrationOptions
    \/ AccountsRegistrationVerification
    \/ AccountsLoginOptions
    \/ AccountsLoginVerification

SpecAccounts == InitWith(TwoEmails) /\ [][NextAccounts]_vars

\* The ceremonies of an account with calls that overlap; the sign-up comes
\* before them
RaceSignUp == docs = << >> /\ CreateAccount

NextRace ==
    \/ RaceSignUp
    \/ BeginRegistrationOptions
    \/ FinishRegistrationOptions
    \/ BeginLoginOptions
    \/ FinishLoginOptions
    \/ BeginVerifyRegistration
    \/ FinishVerifyRegistration
    \/ BeginVerifyLogin
    \/ FinishVerifyLogin

SpecRace == Init /\ [][NextRace]_vars

\* The sign-in and sign-up requests as the browser components make them
\* ---------------------------------------------------------------------------
\* FingerprintScanner and FaceIDScanner: handleScan runs to its await at the
\* click; the promise of onScan settles later, and the timer set in the
\* catch block fires later still.  The element has no guard against a click
\* while a scan is in flight or a timer is set.
\* ---------------------------------------------------------------------------
MaxScans == 2                      \* clicks on one scanner

ScannerFrame ==
    UNCHANGED << docs, users, tokens, sessions, nextSession, nextChallenge,
                 jar, last, loginVerified, okReg, signUps, pending, issued,
                 calls, consumed, ui, codec >>

\* onClick={handleScan}: setState("scanning"), then await onScan()
HandleScan ==
    \E c \in Scanners :
        LET id == scanner[c].clicks + 1
        IN
        /\ scanner[c].clicks < MaxScans
        /\ scanner' = [scanner EXCEPT ![c] =
                          [@ EXCEPT !.state = "scanning", !.clicks = id,
                                    !.inFlight = @ \cup {id}, !.scan = id,
                                    !.event = "click", !.by = id]]
        /\ ScannerFrame

\* await onScan() returns: setState("success")
OnScanResolves ==
    \E c \in Scanners : \E id \in scanner[c].inFlight :
        /\ scanner' = [scanner EXCEPT ![c] =
                          [@ EXCEPT !.state = "success",
                                    !.inFlight = @ \ {id}, !.scan = id,
                                    !.event = "resolve", !.by = id]]
        /\ ScannerFrame

\* await onScan() throws: setState("error") and setTimeout(..., 1500)
OnScanRejects ==
    \E c \in Scanners : \E id \in scanner[c].inFlight :
        /\ scanner' = [scanner EXCEPT ![c] =
                          [@ EXCEPT !.state = "error",
                                    !.inFlight = @ \ {id},
                                    !.timers = @ \cup {id}, !.scan = id,
                                    !.event = "reject", !.by = id]]
        /\ ScannerFrame

\* The timer of a failed scan fires: setState("idle")
ResetTimerFires ==
    \E c \in Scanners : \E id \in scanner[c].timers :
        /\ scanner' = [scanner EXCEPT ![c] =
                          [@ EXCEPT !.state = "idle",
                                    !.timers = @ \ {id}, !.scan = id,
                                    !.event = "timer", !.by = id]]
        /\ ScannerFrame

NextScanner ==
    \/ HandleScan
    \/ OnScanResolves
    \/ OnScanRejects
    \/ ResetTimerFires

SpecScanner == Init /\ [][NextScanner]_vars

\* Round trips of byte sequences through the two encodings
InitEncoding ==
    /\ InitServer(Emails)
    /\ scanner = [c \in Scanners |-> InitScanner]
    /\ codec \in {[NoCodec EXCEPT !.stage = "input", !.bytes = b] :
                     b \in ByteSeqs}

NextEncoding ==
    \/ PasskeyEncode
    \/ PasskeyDecode
    \/ DetectorEncode
    \/ DetectorDecode

SpecEncoding == InitEncoding /\ [][NextEncoding]_vars

\* The component's form: submissions and the ceremonies they start
NextForm ==
    \/ FormSubmitSignIn
    \/ FormSubmitSignUp
    \/ FormLoginOptions
    \/ FormVerifyLogin
    \/ FormCreateSession
    \/ FormRegistrationOptions
    \/ FormVerifyRegistration
    \/ FormRegisterPasskey
    \/ FormReload

SpecForm == Init /\ [][NextForm]_vars

NextBrowser ==
    \/ SubmitSignIn
    \/ SubmitSignUp
    \/ HandleOtpSubmit
    \/ HandleResendOtp
    \/ Reload

SpecBrowser == Init /\ [][NextBrowser]_vars

\* ---------------------------------------------------------------------------
\* Properties
\* ---------------------------------------------------------------------------
\* The document of the account the last call named (0: none)
LastUser == getUserByAccountId(last.acct)

\* The signature counter of a document, an absent one read as 0
CounterOf(doc) == Coalesce(doc.counter, NoCounter, 0)

\* Paths of a verification call on which the verifier gave its answer
VerifierAnswered == {"throw", "unverified", "noinfo", "ok"}

\* C1: whenever the secondary cookie holds an accountId, an earlier
\* verifyWebAuthnLogin call for that account returned verified:true.
C1_SecondaryOnlyAfterVerifiedLogin ==
    jar[SecondaryCookie] # NoCookie =>
        jar[SecondaryCookie].value \in loginVerified

\* C11: in every reachable state no two account documents have the same
\* e-mail, also when createAccount calls for one e-mail overlap.
C11_EmailUnique ==
    \A i, j \in 1..Len(docs) : docs[i].email = docs[j].email => i = j

\* C2: a verifySecret call in which the issuer creates a session returns
\* success with the id of that session and sets the primary cookie to its
\* secret with path "/", httpOnly, sameSite strict and secure; a call in
\* which it creates none returns a failure with an error and keeps the
\* primary cookie; the secondary cookie is the same after either.
C2_VerifySecretContract ==
    [][last'.op = "verifySecret" =>
          /\ jar'[SecondaryCookie] = jar[SecondaryCookie]
          /\ IF sessions' # sessions
               THEN \E s \in sessions' \ sessions :
                       /\ last'.res.success
                       /\ last'.res.data = [sessionId |-> s.id]
                       /\ jar'[PrimaryCookie] =
                             [value |-> s.secret, path |-> "/", httpOnly |-> TRUE,
                              sameSite |-> "strict", secure |-> TRUE]
               ELSE /\ ~last'.res.success
                    /\ last'.res.error # ""
                    /\ jar'[PrimaryCookie] = jar[PrimaryCookie]]_vars

\* C2 happens: an accepted code set the primary cookie while the secondary
\* cookie was set, and the secondary cookie is still there
C2_Witness ==
    /\ last.op = "verifySecret"
    /\ last.res.success
    /\ \E s \in sessions : jar[PrimaryCookie].value = s.secret
    /\ jar[SecondaryCookie] # NoCookie

\* C3: in every reachable state at most one of the two session cookies is
\* set.
C3_AtMostOneSessionCookie ==
    ~(jar[PrimaryCookie] # NoCookie /\ jar[SecondaryCookie] # NoCookie)

\* C4: after a verifyWebAuthnRegistration or verifyWebAuthnLogin call in which
\* the verifier answered (verified, not verified or an error), the challenge
\* field the call consumed is empty.
C4_ChallengeClearedAfterVerification ==
    /\ (last.op = "verifyWebAuthnRegistration" /\ last.path \in VerifierAnswered)
          => docs[LastUser].currentChallenge = NoChallenge
    /\ (last.op = "verifyWebAuthnLogin" /\ last.path \in VerifierAnswered)
          => docs[LastUser].currentAuthChallenge = NoChallenge

\* C5: a verifyWebAuthnRegistration call for an account whose currentChallenge
\* is empty, and a verifyWebAuthnLogin call for an account whose
\* currentAuthChallenge is empty, returns a failure with an error, does not
\* call the verifier and leaves the documents as they were.
C5_EmptyChallengeFailsClosed ==
    [][LET user == getUserByAccountId(last'.acct)
           Empty == \/ /\ last'.op = "verifyWebAuthnRegistration"
                       /\ docs[user].currentChallenge = NoChallenge
                    \/ /\ last'.op = "verifyWebAuthnLogin"
                       /\ docs[user].currentAuthChallenge = NoChallenge
       IN  (user # 0 /\ Empty) =>
               /\ ~last'.res.success
               /\ last'.res.error # ""
               /\ last'.path \notin ReachedVerifier
               /\ docs' = docs]_vars

\* C5 happens: a login verification for an account that has a credential
\* and no stored challenge was refused
C5_Witness ==
    /\ last.op = "verifyWebAuthnLogin"
    /\ last.res = Err("No auth challenge stored for user")
    /\ LastUser # 0
    /\ HasCredential(docs[LastUser])
    /\ docs[LastUser].currentAuthChallenge = NoChallenge

\* C6: a verifyWebAuthnRegistration call that passes the attestation of the
\* account's last successful registration, with no getWebAuthnRegistrationOptions
\* call for the account in between, fails, with the error "No registration
\* challenge found for user" whenever the account was read, and leaves
\* credentialID, credentialPublicKey, counter and passKeyCount as they were.
C6_RegistrationChallengeSingleUse ==
    [][(last'.op = "verifyWebAuthnRegistration" /\ last'.replay) =>
          LET user == getUserByAccountId(last'.acct) IN
          /\ ~last'.res.success
          /\ last'.path # "lookupFailed" =>
                last'.res.error = "No registration challenge found for user"
          /\ docs'[user].credentialID = docs[user].credentialID
          /\ docs'[user].credentialPublicKey = docs[user].credentialPublicKey
          /\ docs'[user].counter = docs[user].counter
          /\ docs'[user].passKeyCount = docs[user].passKeyCount]_vars

\* C6 happens: the attestation of the successful registration was passed
\* again and refused
C6_Witness ==
    /\ last.op = "verifyWebAuthnRegistration"
    /\ last.replay
    /\ last.res = Err("No registration challenge found for user")
    /\ docs[LastUser].passKeyCount = 1

\* C7: no step of any operation decreases the stored counter of an account.
C7_CounterNeverDecreases ==
    [][\A i \in 1..Len(docs) : CounterOf(docs'[i]) >= CounterOf(docs[i])]_vars

\* C8: a verifyWebAuthnLogin call that does not return verified:true leaves
\* the stored counter of every account as it was.
C8_CounterKeptOnFailedLogin ==
    [][(/\ last'.op = "verifyWebAuthnLogin"
        /\ ~(last'.res.success /\ last'.res.data.verified)) =>
          /\ Len(docs') = Len(docs)
          /\ \A i \in 1..Len(docs) : docs'[i].counter = docs[i].counter]_vars

\* C8 happens: the verifier did not accept the response for an account whose
\* stored counter is 1, and the call returned verified:false
C8_Witness ==
    /\ last.op = "verifyWebAuthnLogin"
    /\ last.res = Ok([verified |-> FALSE])
    /\ docs[LastUser].counter = 1

\* C9: a getWebAuthnLoginOptions call for an account whose hasPasskey is
\* false returns a failure with an error, hands out no challenge and leaves
\* the documents as they were.
C9_NoLoginOptionsWithoutPasskey ==
    [][LET user == getUserByAccountId(last'.acct) IN
       (/\ last'.op = "getWebAuthnLoginOptions"
        /\ user # 0
        /\ ~docs[user].hasPasskey) =>
          /\ ~last'.res.success
          /\ last'.res.error # ""
          /\ nextChallenge' = nextChallenge
          /\ docs' = docs]_vars

\* C9 happens: the options were refused to an account without passkey that
\* had asked for registration options before
C9_Witness ==
    /\ last.op = "getWebAuthnLoginOptions"
    /\ last.res = Err("User does not have a registered WebAuthn credential")
    /\ ~docs[LastUser].hasPasskey
    /\ docs[LastUser].currentChallenge # NoChallenge

\* C10: after a successful createAccount call there is exactly one document
\* of the e-mail, and the accountId returned is the one the first successful
\* createAccount call of that e-mail returned and the one in the document.
C10_CreateAccountIdempotent ==
    (last.op = "createAccount" /\ last.res.success) =>
        /\ Cardinality({i \in 1..Len(docs) : docs[i].email = last.email}) = 1
        /\ last.res.data.accountId = signUps[last.email]
        /\ docs[getUserByEmail(last.email)].accountId = signUps[last.email]

\* C10 happens: a successful createAccount call found the document an earlier
\* successful call had created
C10_Witness ==
    /\ last.op = "createAccount"
    /\ last.res.success
    /\ last.path = "existing"
    /\ signUps[last.email] # NullId

\* C12: a signInUser call that read the accounts: when none has the e-mail
\* it returns success with accountId null and hasPasskey false and no code is
\* dispatched; when one has it, one code is dispatched to the user of the
\* e-mail and the call returns the stored accountId and hasPasskey, or the
\* dispatch fails, no code is added and the call returns a failure.
C12_SignInUserContract ==
    [][(last'.op = "signInUser" /\ last'.path # "lookupFailed") =>
          LET user == getUserByEmail(last'.email)
              u == createEmailToken(last'.email)
          IN
          IF user = 0
            THEN /\ last'.res = Ok([accountId |-> NullId, hasPasskey |-> FALSE])
                 /\ tokens' = tokens
                 /\ users' = users
          ELSE IF last'.path = "sent"
            THEN /\ \E c \in Codes : tokens' = [tokens EXCEPT ![u] = @ \cup {c}]
                 /\ last'.res = Ok([accountId |-> docs[user].accountId,
                                    hasPasskey |-> docs[user].hasPasskey])
            ELSE /\ tokens' = tokens
                 /\ ~last'.res.success
                 /\ last'.res.error # ""]_vars

\* C12 happens: a sign-in of an account with a passkey dispatched a code and
\* returned the account's id and hasPasskey true
C12_Witness ==
    /\ last.op = "signInUser"
    /\ last.path = "sent"
    /\ last.res.data.hasPasskey
    /\ last.res.data.accountId = docs[getUserByEmail(last.email)].accountId
    /\ tokens[last.res.data.accountId] # {}

\* C13: after a verifyWebAuthnRegistration call whose attestation the verifier
\* accepted against the stored currentChallenge and whose update went
\* through, the document has hasPasskey true, authMethod "passkey",
\* currentChallenge null, credentialID the id of the reported credential,
\* credentialPublicKey the base64url text of its public key, counter the
\* reported counter and passKeyCount one more than before; nothing else of
\* it changed.
C13_RegistrationSuccessUpdate ==
    [][(last'.op = "verifyWebAuthnRegistration" /\ last'.path = "ok") =>
          LET user == getUserByAccountId(last'.acct)
              reg == last'.reported
          IN
          /\ last'.res = Ok([verified |-> TRUE])
          /\ docs[user].currentChallenge # NoChallenge
          /\ docs'[user].hasPasskey
          /\ docs'[user].authMethod = "passkey"
          /\ docs'[user].currentChallenge = NoChallenge
          /\ docs'[user].credentialID = reg.id.val
          /\ DecodeBase64Url(docs'[user].credentialPublicKey) = reg.publicKey.val
          /\ docs'[user].counter = reg.counter
          /\ docs'[user].passKeyCount = docs[user].passKeyCount + 1
          /\ docs'[user].email = docs[user].email
          /\ docs'[user].accountId = docs[user].accountId
          /\ docs'[user].currentAuthChallenge = docs[user].currentAuthChallenge]_vars

\* C13 happens: a second enrollment was accepted and stored, with a counter
\* of 1 reported
C13_Witness ==
    /\ last.op = "verifyWebAuthnRegistration"
    /\ last.path = "ok"
    /\ last.reported.counter = 1
    /\ docs[LastUser].passKeyCount = 2
    /\ docs[LastUser].counter = 1

\* C14: a verifyWebAuthnRegistration call that fails (lookup failure, account
\* missing, no stored challenge, verifier raises, reports not verified or
\* returns no credential info, update failure) returns a failure with an
\* error and leaves hasPasskey, credentialID, credentialPublicKey, counter
\* and passKeyCount of every account as they were.
C14_RegistrationFailureKeepsCredential ==
    [][(last'.op = "verifyWebAuthnRegistration" /\ last'.path # "ok") =>
          /\ ~last'.res.success
          /\ last'.res.error # ""
          /\ Len(docs') = Len(docs)
          /\ \A i \in 1..Len(docs) :
                /\ docs'[i].hasPasskey = docs[i].hasPasskey
                /\ docs'[i].credentialID = docs[i].credentialID
                /\ docs'[i].credentialPublicKey = docs[i].credentialPublicKey
                /\ docs'[i].counter = docs[i].counter
                /\ docs'[i].passKeyCount = docs[i].passKeyCount]_vars

\* C14 happens: the verifier returned no credential info for an account
\* without passkey, and the call returned the failure
C14_Witness ==
    /\ last.op = "verifyWebAuthnRegistration"
    /\ last.res = Err("No credential info returned from verification")
    /\ ~docs[LastUser].hasPasskey
    /\ docs[LastUser].passKeyCount = 0

\* C15: after every signOutUser call both session cookies are absent and the
\* call has redirected to "/auth", whether or not there was a session of the
\* backing service and whether or not its revocation failed; a getCurrentUser
\* call that follows returns no current user.
C15_SignOutClearsAndRedirects ==
    [][/\ last'.op = "signOutUser" =>
             /\ jar'[PrimaryCookie] = NoCookie
             /\ jar'[SecondaryCookie] = NoCookie
             /\ last'.redirect = "/auth"
       /\ (last.op = "signOutUser" /\ last'.op = "getCurrentUser") =>
             last'.res = Ok(NoData)]_vars

\* C15 happens: a sign-out whose revocation did not go through left a live
\* session at the issuer, no cookie, and redirected
C15_Witness ==
    /\ last.op = "signOutUser"
    /\ last.path = "notRevoked"
    /\ sessions # {}
    /\ jar = [c \in CookieNames |-> NoCookie]
    /\ last.redirect = "/auth"

\* C16: a getCurrentUser call made while the secondary cookie is present
\* resolves the account whose accountId is the cookie's value and nothing
\* else: it returns that account's document, no current user when there is
\* no such account, or the failure of that lookup; the session of the primary
\* cookie is used only when the secondary cookie is absent.
C16_PasskeyCookiePrecedence ==
    [][last'.op = "getCurrentUser" =>
          IF jar[SecondaryCookie] # NoCookie
            THEN LET user == getUserByAccountId(jar[SecondaryCookie].value) IN
                 \/ last'.path = "lookupFailed" /\ ~last'.res.success
                 \/ last'.path = "noUser" /\ user = 0 /\ last'.res = Ok(NoData)
                 \/ last'.path = "passkeyUser" /\ user # 0
                       /\ last'.res = Ok(docs[user])
            ELSE last'.path \in
                    {"noSession", "sessionFailed", "noSessionUser", "sessionUser"}]_vars

\* C16 happens: with both cookies present and the session of the primary
\* cookie live, the account of the secondary cookie was returned
C16_Witness ==
    /\ last.op = "getCurrentUser"
    /\ last.path = "passkeyUser"
    /\ CurrentSession # {}
    /\ last.res.data.accountId = jar[SecondaryCookie].value

\* C17: a getCurrentUser call whose resolution fails (both cookies absent, or
\* the identity-store lookup or the session lookup fails, on either path)
\* returns success with no current user.
C17_ResolutionFailureIsNoUser ==
    (last.op = "getCurrentUser"
        /\ last.path \in {"noSession", "lookupFailed", "sessionFailed"})
      => last.res = Ok(NoData)

\* The flow entry points
FlowEntryPoints ==
    {"sendEmailOTP", "createAccount", "signInUser", "verifySecret",
     "createPasskeySession", "getWebAuthnRegistrationOptions",
     "verifyWebAuthnRegistration", "getWebAuthnLoginOptions",
     "verifyWebAuthnLogin"}

GenericMessage(op) ==
    CASE op = "sendEmailOTP" -> "Failed to send email OTP"
      [] op = "createAccount" -> "Failed to create account"
      [] op = "signInUser" -> "Failed to sign in user"
      [] op = "verifySecret" -> "Failed to verify OTP"
      [] op = "getWebAuthnRegistrationOptions" ->
            "Failed to get WebAuthn registration options"
      [] op = "verifyWebAuthnRegistration" ->
            "Failed to verify WebAuthn registration"
      [] op = "getWebAuthnLoginOptions" -> "Failed to get WebAuthn login options"
      [] op = "verifyWebAuthnLogin" -> "Failed to verify WebAuthn login"
      [] OTHER -> ""

\* Paths on which a call of the identity store or of the token issuer failed
BackendFailed(op) ==
    IF op = "sendEmailOTP" THEN {"sendFailed"}
    ELSE {"lookupFailed", "createFailed", "updateFailed", "issuerFailed"}

\* C19: when a call of the identity store or of the token issuer fails, the
\* error an entry point returns is its fixed generic message.
C19_GenericErrorOnly ==
    (GenericMessage(last.op) # "" /\ last.path \in BackendFailed(last.op)) =>
        last.res.error = GenericMessage(last.op)

\* C20: a verifyWebAuthnLogin call in which the verifier reports the
\* assertion not verified, for an account with stored challenge and
\* credential, returns success with verified false; a call that finds no
\* account, no challenge or no credential, or whose store call fails, returns
\* a failure with an error.
C20_NotVerifiedIsNoError ==
    last.op = "verifyWebAuthnLogin" =>
        /\ last.path = "unverified" =>
              /\ last.res = Ok([verified |-> FALSE])
              /\ HasAuthChallenge(docs[LastUser])
              /\ HasCredential(docs[LastUser])
        /\ last.path \in {"noUser", "noChallenge", "noCredential",
                          "lookupFailed", "updateFailed"} =>
              /\ ~last.res.success
              /\ last.res.error # ""

\* C20 happens: the verifier did not accept an assertion for the stored
\* challenge, and the call returned verified false without an error
C20_Witness ==
    /\ last.op = "verifyWebAuthnLogin"
    /\ last.path = "unverified"
    /\ last.res.success
    /\ ~last.res.data.verified
    /\ docs[LastUser].currentAuthChallenge # NoChallenge

\* ---------------------------------------------------------------------------
\* The OTP flow and the WebAuthn state; the passkey cookie; the recorded method
\* ---------------------------------------------------------------------------
\* The fields of a document that belong to the WebAuthn ceremonies
WebAuthnFields(doc) ==
    << doc.credentialID, doc.credentialPublicKey, doc.counter,
       doc.currentChallenge, doc.currentAuthChallenge, doc.hasPasskey,
       doc.passKeyCount >>

OtpFlowOps == {"sendEmailOTP", "createAccount", "signInUser", "verifySecret"}

\* C23: a call of sendEmailOTP, createAccount, signInUser or verifySecret
\* leaves the credential, the counter, both challenges, hasPasskey and
\* passKeyCount of every account that existed before the call as they were.
C23_OtpFlowKeepsWebAuthnState ==
    [][last'.op \in OtpFlowOps =>
         /\ Len(docs') >= Len(docs)
         /\ \A i \in 1..Len(docs) :
                WebAuthnFields(docs'[i]) = WebAuthnFields(docs[i])]_vars

\* createAccount has found the account of the e-mail, which holds a passkey
\* and an outstanding login challenge
C23_Witness ==
    /\ last.op = "createAccount"
    /\ last.path = "existing"
    /\ \E i \in 1..Len(docs) :
          /\ docs[i].email = last.email
          /\ docs[i].hasPasskey
          /\ docs[i].credentialID # NoStr
          /\ docs[i].currentAuthChallenge # NoChallenge

\* C24: createPasskeySession(accountId) sets the secondary cookie to exactly
\* the accountId, httpOnly, sameSite strict, secure, path "/"; it creates and
\* revokes no session of the issuer, and leaves the primary cookie and every
\* account document as they were.
C24_PasskeySessionCookieOnly ==
    [][last'.op = "createPasskeySession" =>
         /\ jar'[SecondaryCookie] =
              [value |-> last'.acct, httpOnly |-> TRUE, sameSite |-> "strict",
               secure |-> TRUE, path |-> "/"]
         /\ jar'[PrimaryCookie] = jar[PrimaryCookie]
         /\ UNCHANGED << docs, sessions, nextSession, users, tokens >>
         /\ last'.res = Ok([accountId |-> last'.acct])]_vars

\* createPasskeySession has run while a primary cookie and a session of the
\* issuer exist
C24_Witness ==
    /\ last.op = "createPasskeySession"
    /\ jar[SecondaryCookie].value = last.acct
    /\ jar[PrimaryCookie] # NoCookie
    /\ sessions # {}
    /\ docs # << >>

\* C25: authMethod of an account is the method of the account's most recent
\* successful authentication: "otp" right after a successful verifySecret of
\* the account, "passkey" right after a verified verifyWebAuthnLogin.
C25_AuthMethodIsLastMethod ==
    \A i \in 1..Len(docs) :
        docs[i].accountId = last.acct /\ last.res.success =>
            /\ last.op = "verifySecret" => docs[i].authMethod = "otp"
            /\ last.op = "verifyWebAuthnLogin" /\ last.path = "ok" =>
                 docs[i].authMethod = "passkey"

\* C28: an account with hasPasskey = true has a non-empty credentialID and a
\* non-empty credentialPublicKey, whatever server actions have been called.
C28_PasskeyFlagImpliesCredential ==
    \A i \in 1..Len(docs) :
        docs[i].hasPasskey =>
            /\ docs[i].credentialID # NoStr
            /\ docs[i].credentialPublicKey # NoStr

\* ---------------------------------------------------------------------------
\* Order of the ceremony calls
\* ---------------------------------------------------------------------------
\* C26: with calls that run one after another, verifyWebAuthnRegistration
\* (verifyWebAuthnLogin) of an account returns success (verified) only if
\* options of the same kind were issued for the account earlier and no
\* verification of that kind has succeeded since; a login verification leaves
\* the registration challenge as it was, and a registration verification
\* leaves the login challenge as it was.
C26_CeremonyOrder ==
    [][/\ last'.op = "verifyWebAuthnRegistration" /\ last'.res.success =>
            last'.acct \in issued["registration"]
       /\ last'.op = "verifyWebAuthnLogin" /\ last'.path = "ok" =>
            last'.acct \in issued["login"]
       /\ last'.op = "verifyWebAuthnLogin" =>
            /\ Len(docs') = Len(docs)
            /\ \A i \in 1..Len(docs) :
                   docs'[i].currentChallenge = docs[i].currentChallenge
       /\ last'.op = "verifyWebAuthnRegistration" =>
            /\ Len(docs') = Len(docs)
            /\ \A i \in 1..Len(docs) :
                   docs'[i].currentAuthChallenge = docs[i].currentAuthChallenge
      ]_vars

\* A login has verified while a registration challenge of the account was
\* outstanding, and the challenge is still there
C26_Witness ==
    /\ last.op = "verifyWebAuthnLogin"
    /\ last.path = "ok"
    /\ last.acct \notin issued["login"]
    /\ last.acct \in issued["registration"]
    /\ LastUser # 0
    /\ docs[LastUser].currentChallenge # NoChallenge

\* ---------------------------------------------------------------------------
\* Overlapping ceremony calls
\* ---------------------------------------------------------------------------
VerificationOps == {"verifyWebAuthnRegistration", "verifyWebAuthnLogin"}

\* The call of caller c returns in this step
Returns(c, op) == calls[c].op = op /\ calls'[c] = NoCall

\* A verification call of caller c goes on to its update in this step
GoesOn(c, op) == calls[c] = NoCall /\ calls'[c].op = op

C22_PassKeyCountNeverDecreases ==
    [][/\ Len(docs') >= Len(docs)
       /\ \A i \in 1..Len(docs) :
              docs'[i].passKeyCount >= docs[i].passKeyCount]_vars

\* C27: an issued challenge yields at most one successful verification, also
\* when verification calls overlap: no verification returns success for a
\* challenge for which a verification has returned success before.
C27_OneSuccessPerChallenge ==
    [][\A c \in Callers :
          (Returns(c, "verifyRegistration") \/ Returns(c, "verifyLogin"))
            /\ last'.res.success =>
               calls[c].credential.challenge \notin consumed]_vars

\* ---------------------------------------------------------------------------
\* The browser components
\* ---------------------------------------------------------------------------
\* The modal signals success: it is closed, with the toast "OTP verified",
\* and onSuccess has run or the router was sent to /docs
ModalSignalsSuccess ==
    /\ ~ui.modal.isOpen
    /\ ui.modal.toast = "OTP verified"
    /\ ui.modal.onSuccess \/ ui.modal.pushed = "/docs"

\* C29: after an OTP submit the modal signals success only if verifySecret
\* returned success; when verifySecret returned a failure for a six-character
\* code, the modal is still open and shows the invalid-OTP error.
C29_ModalSuccessOnlyOnVerifiedOtp ==
    ui.event = "otpSubmit" =>
        /\ ModalSignalsSuccess => ui.result.success
        /\ ~ui.result.success =>
             /\ ui.modal.isOpen
             /\ ui.modal.error = "Invalid OTP. Please try again."

\* C30: on the entry page, a sign-in for which signInUser returned success
\* with an accountId stores the accountId, which opens the verification
\* step, and a sign-up for which createAccount returned success goes on to
\* the passkey enrollment; the page ends where components/AuthForm ends for
\* the same result.
C30_PageFormAsComponent ==
    /\ ui.event = "signIn" /\ ui.result.success
          /\ ui.result.data.accountId # NullId =>
            ui.page.accountId = ui.result.data.accountId
    /\ ui.event = "signUp" /\ ui.result.success =>
            /\ ui.page.accountId = ui.result.data.accountId
            /\ ui.page.started = "enrollment"
    /\ ui.event \in {"signIn", "signUp"} => ui.page = ui.form

\* ---------------------------------------------------------------------------
\* Options calls, sign-up, and the accounts a call does not name
\* ---------------------------------------------------------------------------
OptionsOps == {"getWebAuthnRegistrationOptions", "getWebAuthnLoginOptions"}
WebAuthnOps == OptionsOps \cup VerificationOps

\* C32: after a successful getWebAuthnRegistrationOptions
\* (getWebAuthnLoginOptions) call that no other call overlaps, the account's
\* currentChallenge (currentAuthChallenge) is the challenge of the options
\* returned; for an accountId that names no account the call returns a
\* failure with an error and no document is modified.
C32_StoredChallengeIsReturnedChallenge ==
    [][last'.op \in OptionsOps =>
         /\ last'.res.success =>
              \A i \in 1..Len(docs') :
                 docs'[i].accountId = last'.acct =>
                    /\ last'.op = "getWebAuthnRegistrationOptions" =>
                         docs'[i].currentChallenge = last'.res.data.challenge
                    /\ last'.op = "getWebAuthnLoginOptions" =>
                         docs'[i].currentAuthChallenge =
                             last'.res.data.challenge
         /\ getUserByAccountId(last'.acct) = 0 =>
              /\ ~last'.res.success
              /\ last'.res.error # ""
              /\ docs' = docs]_vars

\* Login options were issued, and the challenge returned is the stored one
C32_Witness ==
    /\ last.op = "getWebAuthnLoginOptions"
    /\ last.res.success
    /\ LastUser # 0
    /\ docs[LastUser].currentAuthChallenge = last.res.data.challenge
    /\ docs[LastUser].currentAuthChallenge # NoChallenge

\* C33: createAccount creates a document only after the code was dispatched:
\* when sendEmailOTP fails the call returns a failure with an error and the
\* documents are as before; a document it creates has authMethod "otp",
\* hasPasskey false, passKeyCount 0 and the accountId the issuer returned for
\* the e-mail, and the issuer holds a code for that id.
C33_DocumentOnlyAfterDispatch ==
    [][last'.op = "createAccount" =>
         /\ last'.path = "sendFailed" =>
              /\ ~last'.res.success
              /\ last'.res.error # ""
              /\ docs' = docs
         /\ docs' # docs =>
              /\ docs' = Append(docs, docs'[Len(docs')])
              /\ docs'[Len(docs')].email = last'.email
              /\ docs'[Len(docs')].authMethod = "otp"
              /\ docs'[Len(docs')].hasPasskey = FALSE
              /\ docs'[Len(docs')].passKeyCount = 0
              /\ docs'[Len(docs')].accountId = users'[last'.email]
              /\ docs'[Len(docs')].accountId # NullId
              /\ tokens'[users'[last'.email]] # {}]_vars

\* createAccount has created the document of an e-mail
C33_Witness ==
    /\ last.op = "createAccount"
    /\ last.path = "created"
    /\ last.res.success
    /\ \E i \in 1..Len(docs) :
          docs[i].email = last.email /\ docs[i].accountId = last.res.data.accountId

\* C34: a WebAuthn action called with an accountId modifies at most the
\* document of the account with that accountId; the documents of all other
\* accounts are as before.
C34_OtherAccountsUnchanged ==
    [][last'.op \in WebAuthnOps =>
         /\ Len(docs') = Len(docs)
         /\ \A i \in 1..Len(docs) :
                docs[i].accountId # last'.acct => docs'[i] = docs[i]]_vars

\* A registration was verified for one account while another account held
\* an outstanding registration challenge
C34_Witness ==
    /\ last.op = "verifyWebAuthnRegistration"
    /\ last.path = "ok"
    /\ \E i \in 1..Len(docs) :
          /\ docs[i].accountId # last.acct
          /\ docs[i].currentChallenge # NoChallenge

\* The argument of finishPasskeyLogin passes the validation: passkeyId is a
\* non-empty string and the three fields are base64url text
ValidFinishInput(input) ==
    /\ input.passkeyId # NoStr
    /\ ensureBase64Url(input.clientDataJSON)
    /\ ensureBase64Url(input.authenticatorData)
    /\ ensureBase64Url(input.signature)

\* C35: finishPasskeyLogin sets the primary cookie only if its argument is
\* valid and the backing service returned a session with a non-empty secret,
\* and then the cookie holds that secret; otherwise it raises "Failed to
\* finish passkey login." and the primary cookie is as before; the backing
\* service is not called (no session is made) when the validation fails.
C35_FinishPasskeyLoginCookie ==
    [][last'.op = "finishPasskeyLogin" =>
         /\ last'.raised \in {"", "Failed to finish passkey login."}
         /\ last'.raised = "" =>
              /\ ValidFinishInput(last'.input)
              /\ last'.res.data \in sessions' \ sessions
              /\ last'.res.data.secret # NoValue
              /\ jar'[PrimaryCookie] = SessionCookie(last'.res.data.secret)
         /\ last'.raised # "" => jar'[PrimaryCookie] = jar[PrimaryCookie]
         /\ ~ValidFinishInput(last'.input) =>
              /\ last'.raised # ""
              /\ sessions' = sessions
         /\ last'.path \in {"serviceFailed", "invalidSession"} =>
              last'.raised # ""]_vars

\* finishPasskeyLogin has set the primary cookie to the secret of the session
\* the backing service returned for a valid argument
C35_Witness ==
    /\ last.op = "finishPasskeyLogin"
    /\ last.raised = ""
    /\ ValidFinishInput(last.input)
    /\ jar[PrimaryCookie].value = last.res.data.secret

\* C37: after a resend the modal reports "OTP resent" only if sendEmailOTP
\* returned success; when the dispatch failed the modal shows "Failed to
\* resend OTP".
C37_ResendReportsDispatch ==
    ui.event = "resendOtp" =>
        /\ ui.modal.toast = "OTP resent" => ui.result.success
        /\ ~ui.result.success => ui.modal.error = "Failed to resend OTP"

\* The characters the encoded text must not contain
ForbiddenChars == {"+", "/", "="}

\* C38: for every byte sequence, the empty one included, decoding the encoded
\* text gives the byte sequence back and the text contains none of "+", "/"
\* and "=", for the pair of the passkey module and for the pair of
\* biometricDetector.
C38_EncodingRoundTrips ==
    /\ codec.stage \in {"encoded", "decoded"} =>
          \A i \in 1..Len(codec.text) : codec.text[i] \notin ForbiddenChars
    /\ codec.stage = "decoded" =>
          /\ ~codec.back.thrown
          /\ codec.back.bytes = codec.bytes

\* C39: a click sets a scanner to "scanning"; when onScan resolves the state
\* is "success" and stays so until the next click; when onScan rejects the
\* state is "error" and a timer is set that returns it to "idle"; the timer of
\* an earlier failed scan does not change the state of a later scan that is
\* "scanning" or "success".
C39_ScannerStates ==
    [][\A c \in Scanners :
         LET s == scanner[c]
             t == scanner'[c]
         IN  t # s =>
               /\ t.event = "click" => t.state = "scanning"
               /\ t.event = "resolve" => t.state = "success"
               /\ s.state = "success" /\ t.state # "success" =>
                     t.event = "click"
               /\ t.event = "reject" => t.state = "error" /\ t.by \in t.timers
               /\ t.event = "timer" =>
                     /\ t.state = s.state \/ t.state = "idle"
                     /\ s.scan > t.by /\ s.state \in {"scanning", "success"} =>
                          t.state = s.state]_vars

\* The calls of loginWithPasskey, each with the answer it needs, in order
LoginFlowOps ==
    {"getWebAuthnLoginOptions", "verifyWebAuthnLogin", "createPasskeySession"}
PasskeyLoginTrail ==
    << [op |-> "getWebAuthnLoginOptions", ok |-> TRUE],
       [op |-> "verifyWebAuthnLogin", ok |-> TRUE],
       [op |-> "createPasskeySession", ok |-> TRUE] >>

\* C31: the component's form navigates to /docs only after
\* getWebAuthnLoginOptions succeeded, verifyWebAuthnLogin returned verified
\* and createPasskeySession succeeded, in that order; when signInUser reports
\* no passkey for the account, the submission requests no login challenge
\* and sets no session cookie.
C31_DocsOnlyAfterPasskeyLogin ==
    [][/\ ui'.form.pushed = "/docs" => ui'.form.trail = PasskeyLoginTrail
       /\ ui'.event = "createSession" /\ jar' # jar =>
             SubSeq(ui'.form.trail, 1, 2) = SubSeq(PasskeyLoginTrail, 1, 2)
       /\ ~ui'.form.hasPasskey =>
             /\ \A i \in 1..Len(ui'.form.trail) :
                   ui'.form.trail[i].op \notin LoginFlowOps
             /\ ui'.form.started \notin {"passkeyLogin", "assertion", "session"}
             /\ jar' = jar
             /\ nextChallenge' = nextChallenge
                  \/ ui'.event \in {"registrationOptions"}]_vars

\* The form has navigated to /docs after the three calls of a passkey login
C31_Witness ==
    /\ ui.form.pushed = "/docs"
    /\ ui.form.trail = PasskeyLoginTrail
    /\ jar[SecondaryCookie].value = ui.form.accountId

\* Calls of an operation on record for the submission
TrailOf(form, op) == {i \in 1..Len(form.trail) : form.trail[i].op = op}

\* C36: after createAccount succeeded the form attempts the enrollment once;
\* however the enrollment ends, the account's document is still there, the
\* form navigates to /sign-in and isLoading is false again; the form reports
\* "Passkey registered" only if verifyWebAuthnRegistration returned verified.
C36_SignUpEnrollsOnce ==
    [][/\ ui'.event = "signUp" /\ ui'.result.success =>
             /\ ui'.form.started = "enrollment"
             /\ ui'.form.trail = << >>
       /\ ui.form.started \in {"enrollment", "attestation", "flag"} =>
             /\ Cardinality(TrailOf(ui'.form,
                                    "getWebAuthnRegistrationOptions")) = 1
             /\ getUserByAccountId(ui'.form.accountId) # 0
             /\ Len(docs') >= Len(docs)
             /\ ~isLoading(ui'.form) => ui'.form.pushed = "/sign-in"
       /\ ui'.form.pushed = "/sign-in" => ~isLoading(ui'.form)
       /\ ui'.form.toast = "Passkey registered" =>
             \E i \in TrailOf(ui'.form, "verifyWebAuthnRegistration") :
                 ui'.form.trail[i].ok]_vars

\* The enrollment after a sign-up went through and the form says so
C36_Witness ==
    /\ ui.form.toast = "Passkey registered"
    /\ ui.form.pushed = "/sign-in"
    /\ ~isLoading(ui.form)
    /\ getUserByAccountId(ui.form.accountId) # 0
    /\ docs[getUserByAccountId(ui.form.accountId)].hasPasskey

====
